---- MODULE Spec2Model ----
(***************************************************************************)
(* A model of DLGameViewer2.py: the scan / enrich / cache pipeline         *)
(* (DLGameViewer), the duplicate query and the thumbnail prefetch workers  *)
(* (GameViewerGUI), and the pure helpers they use.                         *)
(*                                                                         *)
(* Strings are sequences of one-character strings, so that the regular     *)
(* expression search and the path functions are computed, not assumed.     *)
(***************************************************************************)
EXTENDS Integers, Sequences, FiniteSets, TLC

VARIABLES
    \* ---- extract_game_code, called on one folder name
    folder_name,      \* the argument
    game_code,        \* the value returned, or Pending before the call
    \* ---- resize_image_maintain_aspect, called on one image
    image_size,       \* <<width, height>> of the source image
    target_size,      \* <<target_width, target_height>>
    new_size,         \* the size handed to image.resize, or Pending
    \* ---- download_images, called on one cache directory
    image_urls,       \* the argument: the candidate URLs
    thumb_dir,        \* whether <folder>/thumb_imgs exists
    thumb_files,      \* what each of 00.jpg .. 04.jpg holds, NoFile if absent
    requests,         \* the URLs requests.get was called with, with their index
    download_result,  \* Pending, "returned" or "raised"
    files_at_call,    \* thumb_files when the call started
    \* ---- the store (games.db) and what the window lists
    games,            \* the rows of table games, in rowid order
    last_id,          \* the AUTOINCREMENT counter of the table
    all_games,        \* GameViewerGUI.all_games: the rows on display
    duplicate_games,  \* what check_duplicate_codes collected, or Pending
    \* ---- the disk under the watched directories
    has_exe,          \* folder -> whether some file under it ends in .exe
    thumbs,           \* folder -> what its thumb_imgs/00.jpg .. 04.jpg hold
    thumb_dirs,       \* the folders whose thumb_imgs directory exists
    \* ---- DLGameViewer and the scan worker thread
    game_paths,       \* DLGameViewer.game_paths
    skipped_folders,  \* DLGameViewer.skipped_folders
    invalid_folders,  \* DLGameViewer.invalid_folders
    no_exe_folders,   \* DLGameViewer.no_exe_folders
    scan_pc,          \* where the worker thread is: idle, begin, paths, entries
    registered_folders, \* process_folders' local set of stored paths
    path_idx,         \* position of the for loop over game_paths
    listing,          \* what is left of os.listdir(game_path)
    scan_threads,     \* the perform_scan threads started and not yet ended
    \* ---- the window
    scan_btn,         \* state of the scan button: normal or disabled
    after_calls,      \* callbacks given to window.after(0, ...), not yet run
    message,          \* the last message box shown
    \* ---- the record of the runs (not program state)
    run_no,           \* scan runs started
    visit_log,        \* the directories the current run visited and their class
    runs,             \* what each ended run did
    changed_cur,      \* a folder or the store was changed since this run began
    changed_prev,     \* ... between the start of the run before and this one
    \* ---- the image loader threads
    image_queue,      \* GameViewerGUI.image_queue: the tasks put and not yet taken
    loader,           \* thread -> where it is (get, load) and the task it holds
    image_files,      \* the image paths that exist on the disk
    img_labels,       \* label -> the image it shows, NoImage while it shows none
    prefetch_log,     \* label -> what became of its task (not program state)
    \* ---- the review surface, the game frames and delete_game
    selection,        \* the folder selection dialog: its pc, the folders it offers
                      \* and how often it was asked for (opened, not program state)
    search_dialog,    \* GameInfoSearchDialog: its pc, folder_path, downloaded_image_path
    game_frames,      \* GameViewerGUI.game_frames, as the last refresh_display made them
    thread_ops,       \* the blocking operations run so far, by thread (not program state)
    trash,            \* the folders send2trash moved to the trash
    delete_log,       \* what the last delete_game met and did (not program state)
    \* ---- scrape_game_info, called on one identifier
    scrape_args,      \* the identifier and the cache directory it is called on
    scrape_result,    \* what it returned and asked the network for, NoScrape before
    \* ---- the searches
    search_threads    \* the search_in_background threads, in the order they were started

vars == <<folder_name, game_code, image_size, target_size, new_size,
          image_urls, thumb_dir, thumb_files, requests, download_result,
          files_at_call, games, last_id, all_games, duplicate_games,
          has_exe, thumbs, thumb_dirs, game_paths, skipped_folders,
          invalid_folders, no_exe_folders, scan_pc, registered_folders,
          path_idx, listing, scan_threads, scan_btn, after_calls, message,
          run_no, visit_log, runs, changed_cur, changed_prev,
          image_queue, loader, image_files, img_labels, prefetch_log,
          selection, search_dialog, game_frames, thread_ops, trash, delete_log,
          scrape_args, scrape_result, search_threads>>

Pending == "pending"

(***************************************************************************)
(* Bounds of the model.                                                    *)
(***************************************************************************)
MaxNameLen == 6       \* longest folder name tried on extract_game_code
MaxSide == 10         \* largest width and height of the small source images
MaxUrls == 6          \* longest list of candidate image URLs
MaxRuns == 2          \* scan runs started in one behaviour
MaxPaths == 2         \* watched directories in settings.json
MaxRows == 5          \* most rows of the store the duplicate query is tried on
MaxFrames == 4        \* game frames created, each with its image label
MaxManual == 1        \* folders registered by hand in one behaviour
MaxReviews == 1       \* times the review surface is opened in one behaviour
MaxEdits == 1         \* times a row is rewritten by the game information dialog
MaxStored == 3        \* rows of the store when games are deleted

(***************************************************************************)
(* Characters.  Python's \d matches a decimal digit; [RV]J is case         *)
(* sensitive; "x" stands for every character the pattern does not name.    *)
(***************************************************************************)
Digits == {"7"}
NameChars == {"R", "V", "J", "x"} \cup Digits

IsDigit(c) == c \in Digits

(***************************************************************************)
(* extract_game_code: re.search(r'([RV]J\d+)', folder_name).               *)
(* The engine tries each start position from the left; at a position it    *)
(* needs [RV], then J, then one digit, and \d+ is greedy with nothing      *)
(* after it, so it takes the digits as far as they go.                     *)
(***************************************************************************)
NoCode == <<>>        \* Python's None: falsy, like no other return value

RECURSIVE DigitRunEnd(_, _)
DigitRunEnd(s, j) ==
    IF j + 1 <= Len(s) /\ IsDigit(s[j + 1]) THEN DigitRunEnd(s, j + 1) ELSE j

MatchEndMutantOneDigit(s, i) ==
    IF i + 2 <= Len(s) /\ s[i] \in {"R", "V"} /\ s[i + 1] = "J" /\ IsDigit(s[i + 2])
    THEN i + 2
    ELSE 0

\* The end of the match that starts at position i, 0 if none starts there.
MatchEnd(s, i) ==
    IF i + 2 <= Len(s) /\ s[i] \in {"R", "V"} /\ s[i + 1] = "J" /\ IsDigit(s[i + 2])
    THEN DigitRunEnd(s, i + 2)
    ELSE 0

RECURSIVE SearchFrom(_, _)
SearchFrom(s, i) ==
    IF i > Len(s) THEN NoCode
    ELSE IF MatchEnd(s, i) # 0 THEN SubSeq(s, i, MatchEnd(s, i))
    ELSE SearchFrom(s, i + 1)

extract_game_code(name) == SearchFrom(name, 1)

(***************************************************************************)
(* IEEE-754 binary64 arithmetic, as Python's float does it.                *)
(* resize_image_maintain_aspect divides and multiplies in floating point   *)
(* and truncates with int(), so the rounding of each operation decides     *)
(* the pixel count.  A positive double is m * 2^e with 2^52 <= m < 2^53;   *)
(* m is held as LimbCount limbs of 14 bits, least significant        *)
(* first, since it does not fit a 32-bit integer.  Each operation returns  *)
(* the double nearest the exact result, ties to even.                      *)
(***************************************************************************)
LimbBits == 14
LimbBase == 16384                 \* 2^LimbBits: a limb times a pixel count fits 31 bits
LimbCount == 5                    \* 70 bits: room for a 53-bit m times a size
Limbs == 1..LimbCount

BigOf(n) == [i \in Limbs |->
                IF i = 1 THEN n % LimbBase
                ELSE IF i = 2 THEN (n \div LimbBase) % LimbBase
                ELSE IF i = 3 THEN n \div (LimbBase * LimbBase)
                ELSE 0]

BigToInt(a) == a[1] + LimbBase * a[2] + LimbBase * LimbBase * a[3]

\* -1, 0, 1 as a < b, a = b, a > b: the most significant differing limb decides
BigCmp(a, b) ==
    LET diff == {i \in Limbs : a[i] # b[i]}
    IN  IF diff = {} THEN 0
        ELSE LET top == CHOOSE i \in diff : \A j \in diff : j <= i
             IN  IF a[top] > b[top] THEN 1 ELSE -1

\* a * n + carry, for a small n
RECURSIVE BigMulFrom(_, _, _, _)
BigMulFrom(a, n, i, carry) ==
    IF i > LimbCount THEN <<>>
    ELSE LET v == a[i] * n + carry
         IN  <<v % LimbBase>> \o BigMulFrom(a, n, i + 1, v \div LimbBase)

BigMulSmall(a, n) == BigMulFrom(a, n, 1, 0)
BigDouble(a) == BigMulFrom(a, 2, 1, 0)
BigInc(a) == BigMulFrom(a, 1, 1, 1)

\* a - b, for a >= b
RECURSIVE BigSubFrom(_, _, _, _)
BigSubFrom(a, b, i, borrow) ==
    IF i > LimbCount THEN <<>>
    ELSE LET v == a[i] - b[i] - borrow
         IN  IF v < 0 THEN <<v + LimbBase>> \o BigSubFrom(a, b, i + 1, 1)
             ELSE <<v>> \o BigSubFrom(a, b, i + 1, 0)

BigSub(a, b) == BigSubFrom(a, b, 1, 0)

\* a * 2^k and floor(a / 2^k): whole limbs, then the bits within a limb
ShiftLeft(a, k) ==
    LET j == k \div LimbBits
        b == BigMulSmall(a, 2 ^ (k % LimbBits))
    IN  [i \in Limbs |-> IF i - j >= 1 THEN b[i - j] ELSE 0]

ShiftRight(a, k) ==
    LET j == k \div LimbBits
        t == k % LimbBits
    IN  [i \in Limbs |->
            (IF i + j <= LimbCount THEN a[i + j] \div (2 ^ t) ELSE 0)
            + (IF i + j + 1 <= LimbCount
               THEN (a[i + j + 1] % (2 ^ t)) * (2 ^ (LimbBits - t))
               ELSE 0)]

\* The number of bits of a: 0 for 0, else floor(log2(a)) + 1.
BitLen(a) ==
    LET used == {i \in Limbs : a[i] # 0}
    IN  IF used = {} THEN 0
        ELSE LET top == CHOOSE i \in used : \A j \in used : j <= i
                 len == CHOOSE k \in 1..LimbBits :
                            2 ^ (k - 1) <= a[top] /\ a[top] < 2 ^ k
             IN  LimbBits * (top - 1) + len

MantissaBits == 53                \* binary64: 52 stored bits and the hidden one
DigitBits == 4                    \* the long division makes 4 quotient bits a step
TwoTo52 == ShiftLeft(BigOf(1), MantissaBits - 1)
TwoTo53 == ShiftLeft(BigOf(1), MantissaBits)

\* Scale n / d by a power of two into [1, 2): n / d = (z.n / z.d) * 2^z.sh.
Normalise(n, d) ==
    LET s  == BitLen(n) - BitLen(d)
        n1 == IF s < 0 THEN ShiftLeft(n, 0 - s) ELSE n
        d1 == IF s > 0 THEN ShiftLeft(d, s) ELSE d
    IN  IF BigCmp(n1, d1) >= 0 THEN [n |-> n1, d |-> d1, sh |-> s]
        ELSE [n |-> BigDouble(n1), d |-> d1, sh |-> s - 1]

\* Long division of n by d (d <= n < 2d): the quotient q of n * 2^(DigitBits*k)
\* by d and the remainder r < d, one digit of DigitBits bits a step.
RECURSIVE QuotDigits(_, _, _)
QuotDigits(n, d, k) ==
    IF k = 0 THEN [q |-> BigOf(1), r |-> BigSub(n, d)]
    ELSE LET p     == QuotDigits(n, d, k - 1)
             r16   == ShiftLeft(p.r, DigitBits)
             fits  == {t \in 0..(2 ^ DigitBits - 1) : BigCmp(BigMulSmall(d, t), r16) <= 0}
             digit == CHOOSE t \in fits : \A u \in fits : u <= t
         IN  [q |-> BigMulFrom(p.q, 2 ^ DigitBits, 1, digit),
              r |-> BigSub(r16, BigMulSmall(d, digit))]

\* The double nearest n / d (n, d > 0), times 2^e0.
DivRound(n, d, e0) ==
    LET z    == Normalise(n, d)
        qr   == QuotDigits(z.n, z.d, (MantissaBits - 1) \div DigitBits)
        half == BigCmp(BigDouble(qr.r), z.d)
        up   == half > 0 \/ (half = 0 /\ qr.q[1] % 2 = 1)
        q    == IF up THEN BigInc(qr.q) ELSE qr.q
        e    == z.sh - (MantissaBits - 1) + e0
    IN  IF BigCmp(q, TwoTo53) = 0 THEN [m |-> TwoTo52, e |-> e + 1]
        ELSE [m |-> q, e |-> e]

IntDivInt(x, y) == DivRound(BigOf(x), BigOf(y), 0)          \* x / y
IntDivFloat(x, f) == DivRound(BigOf(x), f.m, 0 - f.e)       \* x / f
IntMulFloat(x, f) == DivRound(BigMulSmall(f.m, x), BigOf(1), f.e)   \* x * f

FloatGt(f, g) == f.e > g.e \/ (f.e = g.e /\ BigCmp(f.m, g.m) > 0)

\* int(f) for 0 < f < 2^31: the integer part.
FloatToInt(f) ==
    IF 0 - f.e >= MantissaBits THEN 0
    ELSE BigToInt(ShiftRight(f.m, 0 - f.e))

(***************************************************************************)
(* resize_image_maintain_aspect: the size it asks image.resize for.        *)
(***************************************************************************)
THUMBNAIL_SIZE == <<100, 100>>
CARD_IMAGE_SIZE == <<250, 180>>

resize_image_maintain_aspect(size, target) ==
    LET width         == size[1]
        height        == size[2]
        target_width  == target[1]
        target_height == target[2]
        aspect        == IntDivInt(width, height)
        target_aspect == IntDivInt(target_width, target_height)
    IN  IF FloatGt(aspect, target_aspect)
        THEN <<target_width, FloatToInt(IntDivFloat(target_width, aspect))>>
        ELSE <<FloatToInt(IntMulFloat(target_height, aspect)), target_height>>


(***************************************************************************)
(* download_images.  A URL is a record: whether it starts with "http" and  *)
(* what it names.  A file is NoFile or what was written to it.             *)
(***************************************************************************)
MAX_IMAGES == 5                   \* image_urls[:5]
NoFile == <<"none", 0>>
OldFile == <<"old", 0>>           \* a file present before the call
ImageIndexes == 0..(MAX_IMAGES - 1)

\* the URL a page lists at position i: every second one has no scheme
PageUrl(i) == [http |-> i % 2 = 1, name |-> i]
PageUrls(n) == [i \in 1..n |-> PageUrl(i)]

\* url = f"https://{url.lstrip('/')}" unless it starts with http
AbsoluteUrl(url) == IF url.http THEN url ELSE [url EXCEPT !.http = TRUE]

\* what img.save leaves for a URL fetched and decoded
SavedImage(url) == <<"jpeg", url.name>>

\* One iteration without the os.path.exists test.
DownloadOneMutantNoSkip(st, idx, url, outcome) ==
    LET asked == Append(st.requests, [idx |-> idx, url |-> AbsoluteUrl(url)])
    IN  IF outcome = "ok"
        THEN [files |-> [st.files EXCEPT ![idx] = SavedImage(url)], requests |-> asked]
        ELSE [files |-> st.files, requests |-> asked]

\* One iteration of the loop over enumerate(image_urls): st is the files and
\* the requests made so far, outcome what the fetch and decode of url does.
DownloadOne(st, idx, url, outcome) ==
    IF st.files[idx] # NoFile THEN st                       \* continue
    ELSE LET asked == Append(st.requests, [idx |-> idx, url |-> AbsoluteUrl(url)])
         IN  IF outcome = "ok"
             THEN [files |-> [st.files EXCEPT ![idx] = SavedImage(url)],
                   requests |-> asked]
             ELSE [files |-> st.files, requests |-> asked]  \* except: print

\* The loop, from position i of the sliced list on.
RECURSIVE DownloadLoop(_, _, _, _)
DownloadLoop(st, urls, outcomes, i) ==
    IF i > Len(urls) THEN st
    ELSE DownloadLoop(DownloadOne(st, i - 1, urls[i], outcomes[i - 1]),
                      urls, outcomes, i + 1)

FirstUrls(urls) == SubSeq(urls, 1, IF Len(urls) < MAX_IMAGES THEN Len(urls) ELSE MAX_IMAGES)

\* download_images once os.makedirs has succeeded
download_images(files, urls, outcomes) ==
    DownloadLoop([files |-> files, requests |-> <<>>], FirstUrls(urls), outcomes, 1)

FetchOutcomes == [ImageIndexes -> {"ok", "fail"}]

(***************************************************************************)
(* The store.  A row has the columns the program reads back (id,           *)
(* game_code, cover_image, folder_path, exe_files) and, for the record,    *)
(* who inserted it (by) and in which scan run (run).  INSERT gives the     *)
(* next AUTOINCREMENT id and appends.                                      *)
(***************************************************************************)
Sep == "\\"                       \* os.sep where the program runs

Row(id, code, cover, path, exes, by, run) ==
    [id |-> id, game_code |-> code, cover_image |-> cover, folder_path |-> path,
     exe_files |-> exes, by |-> by, run |-> run, edits |-> 0]

RowsWithCode(rows, code) == SelectSeq(rows, LAMBDA r : r.game_code = code)

\* SELECT game_code, COUNT(*) ... GROUP BY game_code HAVING count >= 1
DuplicateCodesMutantHavingOne(rows) ==
    {rows[i].game_code : i \in 1..Len(rows)}

\* SELECT game_code, COUNT(*) AS count ... GROUP BY game_code HAVING count > 1
DuplicateCodes(rows) ==
    {code \in {rows[i].game_code : i \in 1..Len(rows)} :
        Len(RowsWithCode(rows, code)) > 1}

\* for game_code, _ in duplicates: duplicate_games.extend(SELECT ... WHERE game_code = ?)
RECURSIVE CollectDuplicates(_, _)
CollectDuplicates(rows, duplicates) ==
    IF duplicates = <<>> THEN <<>>
    ELSE RowsWithCode(rows, Head(duplicates)) \o CollectDuplicates(rows, Tail(duplicates))

\* the orders in which a query without ORDER BY may give a set of values
Orderings(S) == {q \in [1..Cardinality(S) -> S] : \A v \in S : \E i \in DOMAIN q : q[i] = v}

\* sorted(self.all_games, key=lambda x: x[0], reverse=True)
RECURSIVE SortedByIdDescending(_)
SortedByIdDescending(rows) ==
    IF rows = <<>> THEN <<>>
    ELSE LET top == CHOOSE i \in 1..Len(rows) : \A j \in 1..Len(rows) : rows[j].id <= rows[i].id
         IN  <<rows[top]>> \o
             SortedByIdDescending(SubSeq(rows, 1, top - 1) \o SubSeq(rows, top + 1, Len(rows)))

(***************************************************************************)
(* Paths.  os.path.normpath turns "/" into the separator, drops repeated   *)
(* and trailing separators; os.path.join puts one separator between.       *)
(***************************************************************************)
IsSep(c) == c \in {Sep, "/"}

RECURSIVE NormFrom(_, _)
NormFrom(p, i) ==
    IF i > Len(p) THEN <<>>
    ELSE IF IsSep(p[i])
         THEN IF i = Len(p) \/ IsSep(p[i + 1]) THEN NormFrom(p, i + 1)
              ELSE <<Sep>> \o NormFrom(p, i + 1)
         ELSE <<p[i]>> \o NormFrom(p, i + 1)

normpath(p) == NormFrom(p, 1)

join(a, b) == IF a # <<>> /\ IsSep(a[Len(a)]) THEN a \o b ELSE a \o <<Sep>> \o b

\* os.path.join(folder_path, "thumb_imgs", "00.jpg")
CoverPath(folder_path) == join(join(folder_path, <<"thumb_imgs">>), <<"00.jpg">>)

\* The names between the separators of a path: what the file system looks up.
RECURSIVE Split(_, _, _)
Split(path, i, name) ==
    IF i > Len(path) THEN (IF name = <<>> THEN <<>> ELSE <<name>>)
    ELSE IF IsSep(path[i])
    THEN (IF name = <<>> THEN <<>> ELSE <<name>>) \o Split(path, i + 1, <<>>)
    ELSE Split(path, i + 1, Append(name, path[i]))

Components(path) == Split(path, 1, <<>>)

\* two spellings of one folder
SameFolder(a, b) ==
    IF a = b THEN TRUE
    ELSE IF SelectSeq(a, LAMBDA c : ~IsSep(c)) # SelectSeq(b, LAMBDA c : ~IsSep(c)) THEN FALSE
    ELSE Components(a) = Components(b)

\* the spelling os.path.normpath gives: os.sep only, none doubled, none last
IsNormalized(path) ==
    /\ \A i \in 1..Len(path) : IsSep(path[i]) => path[i] = Sep
    /\ \A i \in 1..(Len(path) - 1) : ~(IsSep(path[i]) /\ IsSep(path[i + 1]))
    /\ path # <<>> => ~IsSep(path[Len(path)])

(***************************************************************************)
(* The disk.  The directory A exists and holds two folders and a plain     *)
(* file; C is in the settings but not on the disk.  The settings may name  *)
(* A in two spellings.                                                     *)
(***************************************************************************)
WatchedOnDisk == {<<"A">>}
SettingsPaths == {<<"A">>, <<"A", "/">>, <<"C">>}

ListDir(game_path) ==
    IF SameFolder(game_path, <<"A">>) THEN << <<"R", "J", "7">>, <<"V", "J", "7">>, <<"x">> >>
    ELSE <<>>

PlainFiles == { <<"A", Sep, "V", "J", "7">> }
Folders ==
    UNION {{join(d, ListDir(d)[i]) : i \in 1..Len(ListDir(d))} : d \in WatchedOnDisk}
    \ PlainFiles

\* The file system finds a folder by any spelling of its path.
PathExists(game_path) == \E d \in WatchedOnDisk : SameFolder(d, game_path)
IsDir(path) == IF path \in Folders THEN TRUE ELSE \E f \in Folders : SameFolder(f, path)
OnDisk(path) == IF path \in Folders THEN path ELSE CHOOSE f \in Folders : SameFolder(f, path)

\* get_exe_files: the relative paths of the .exe files, as JSON text
ExeList(folder_path, exe) == IF exe[OnDisk(folder_path)] THEN <<"game.exe">> ELSE <<>>
JsonDumps(list) == <<"json", list>>
JsonLoadsMutantRaw(text) == text

JsonLoads(text) == text[2]
get_exe_files(folder_path, exe) == JsonDumps(ExeList(folder_path, exe))

(***************************************************************************)
(* scrape_game_info.  page is what the product page gives: "fetch_failed"  *)
(* (requests.get or raise_for_status raises), "no_title" (soup.find gives  *)
(* None and .text raises) or "ok" with the number of image URLs it lists.  *)
(* mkdir_ok                                                                *)
(* is whether os.makedirs can create thumb_imgs, outcomes what each image  *)
(* fetch does.  The result is the game_info (NoInfo for None), the disk of *)
(* the folder afterwards, and whether an exception left the function.      *)
(***************************************************************************)
NoInfo == [none |-> TRUE]
base_urls == {<<"R", "J">>, <<"V", "J">>}     \* the keys of base_urls and api_urls
PageOutcomes ==
    {[status |-> "fetch_failed", images |-> 0], [status |-> "no_title", images |-> 0],
     [status |-> "ok", images |-> 0], [status |-> "ok", images |-> 2]}

ScrapeResult(info, files, dir, raised) ==
    [info |-> info, files |-> files, dir |-> dir, raised |-> raised]

\* scrape_game_info without its try / except
ScrapeMutantNoTry(code, folder_path, files, dir, page, mkdir_ok, outcomes) ==
    IF SubSeq(code, 1, 2) \notin base_urls \/ page.status # "ok"
    THEN ScrapeResult(NoInfo, files, dir, TRUE)
    ELSE IF page.images = 0
    THEN ScrapeResult([game_code |-> code, cover_image |-> <<>>], files, dir, FALSE)
    ELSE IF ~dir /\ ~mkdir_ok
    THEN ScrapeResult(NoInfo, files, dir, TRUE)
    ELSE ScrapeResult([game_code |-> code, cover_image |-> CoverPath(folder_path)],
                      IF files[0] = NoFile
                      THEN download_images(files, PageUrls(page.images), outcomes).files
                      ELSE files,
                      TRUE, FALSE)

scrape_game_info(code, folder_path, files, dir, page, mkdir_ok, outcomes) ==
    IF SubSeq(code, 1, 2) \notin base_urls
    THEN ScrapeResult(NoInfo, files, dir, TRUE)          \* KeyError, outside the try
    ELSE IF page.status # "ok"
    THEN ScrapeResult(NoInfo, files, dir, FALSE)         \* except: return None
    ELSE IF page.images = 0
    THEN ScrapeResult([game_code |-> code, cover_image |-> <<>>], files, dir, FALSE)
    ELSE IF ~dir /\ ~mkdir_ok
    THEN ScrapeResult(NoInfo, files, dir, FALSE)         \* os.makedirs raises
    ELSE ScrapeResult([game_code |-> code, cover_image |-> CoverPath(folder_path)],
                      IF files[0] = NoFile
                      THEN download_images(files, PageUrls(page.images), outcomes).files
                      ELSE files,
                      TRUE, FALSE)

(***************************************************************************)
(* The body of the loop of process_folders over one directory entry.       *)
(* st holds what the loop reads and writes; the result adds the class the  *)
(* entry got (cls) and the calls made for it (calls), for the record.      *)
(***************************************************************************)
AlreadyRegisteredMutantNever(folder_path, registered) == FALSE

\* if folder_path in registered_folders
AlreadyRegistered(folder_path, registered) == folder_path \in registered

NoExeFoundMutantNever(exe_list) == FALSE

\* if not exe_list
NoExeFound(exe_list) == exe_list = <<>>

FailedFolderMutantDropped(invalid, folder_path) == invalid

\* else: self.invalid_folders.append(folder_path)
FailedFolder(invalid, folder_path) == Append(invalid, folder_path)

NoExeFolderMutantPath(no_exe, name, folder_path) == Append(no_exe, folder_path)

\* self.no_exe_folders.append(folder_name)
NoExeFolder(no_exe, name, folder_path) == Append(no_exe, name)

MarkRegisteredMutantForgotten(registered, folder_path) == registered

\* registered_folders.add(folder_path)
MarkRegistered(registered, folder_path) == registered \cup {folder_path}

VisitFolder(st, game_path, name, exe, page, mkdir_ok, outcomes, run) ==
    LET folder_path == normpath(join(game_path, name))
        code        == extract_game_code(name)
        disk        == OnDisk(folder_path)
        got         == scrape_game_info(code, folder_path, st.thumbs[disk],
                                        disk \in st.thumb_dirs,
                                        page, mkdir_ok, outcomes)
        scraped     == [st EXCEPT !.thumbs[disk] = got.files,
                                  !.thumb_dirs = IF got.dir THEN @ \cup {disk} ELSE @,
                                  !.calls = <<"extract_game_code", "scrape_game_info">>]
        exe_files   == get_exe_files(folder_path, exe)
    IN  IF ~IsDir(folder_path) THEN [st EXCEPT !.cls = "NotADirectory"]
        ELSE IF AlreadyRegistered(folder_path, st.registered)
        THEN [st EXCEPT !.skipped = Append(@, name), !.cls = "Skipped"]
        ELSE IF code = NoCode
        THEN [st EXCEPT !.invalid = Append(@, folder_path), !.cls = "NoIdentifier",
                        !.calls = <<"extract_game_code">>]
        ELSE IF got.raised
        THEN [scraped EXCEPT !.cls = "Raised"]
        ELSE IF got.info = NoInfo
        THEN [scraped EXCEPT !.invalid = FailedFolder(@, folder_path),
                             !.cls = "EnrichmentFailed"]
        ELSE IF NoExeFound(JsonLoads(exe_files))
        THEN [scraped EXCEPT !.no_exe = NoExeFolder(@, name, folder_path),
                             !.cls = "NoExecutable",
                             !.calls = @ \o <<"get_exe_files">>]
        ELSE [scraped EXCEPT
                 !.games = Append(@, Row(st.last_id + 1, got.info.game_code,
                                         got.info.cover_image, folder_path,
                                         exe_files, "scan", run)),
                 !.last_id = @ + 1,
                 !.registered = MarkRegistered(@, folder_path),
                 !.cls = "Registered",
                 !.calls = @ \o <<"get_exe_files", "INSERT">>]

(***************************************************************************)
(* The state each part of the program starts in when it is not the part    *)
(* under study.                                                            *)
(***************************************************************************)
ExtractIdle == folder_name = <<>> /\ game_code = Pending
NoScrape == [call |-> "none"]
ScrapeIdle == scrape_args = Pending /\ scrape_result = NoScrape
SearchIdle == search_threads = <<>>
ResizeIdle == image_size = <<1, 1>> /\ target_size = THUMBNAIL_SIZE /\ new_size = Pending

DownloadIdle ==
    /\ image_urls = <<>>
    /\ thumb_dir = FALSE
    /\ thumb_files = [i \in ImageIndexes |-> NoFile]
    /\ requests = <<>>
    /\ download_result = Pending
    /\ files_at_call = thumb_files

StoreIdle ==
    /\ games = <<>>
    /\ last_id = 0
    /\ all_games = <<>>
    /\ duplicate_games = Pending

DiskIdle ==
    /\ has_exe = [f \in Folders |-> FALSE]
    /\ thumbs = [f \in Folders |-> [i \in ImageIndexes |-> NoFile]]
    /\ thumb_dirs = {}

ViewerIdle ==
    /\ game_paths = <<>>
    /\ skipped_folders = <<>>
    /\ invalid_folders = <<>>
    /\ no_exe_folders = <<>>
    /\ scan_pc = "idle"
    /\ registered_folders = {}
    /\ path_idx = 1
    /\ listing = <<>>
    /\ scan_threads = 0

WindowIdle ==
    /\ scan_btn = "normal"
    /\ after_calls = <<>>
    /\ message = [title |-> "none"]

RecordIdle ==
    /\ run_no = 0
    /\ visit_log = <<>>
    /\ runs = <<>>
    /\ changed_cur = FALSE
    /\ changed_prev = FALSE

Elements(q) == {q[i] : i \in 1..Len(q)}

NoDialog == [pc |-> "closed", folders |-> <<>>, opened |-> 0]
NoSearchDialog == [pc |-> "closed", folder_path |-> <<>>, downloaded_image_path |-> <<>>]
NoDelete == [outcome |-> "none"]

\* no dialog is open, no frame was created, nothing was deleted
ReviewIdle ==
    /\ selection = NoDialog
    /\ search_dialog = NoSearchDialog
    /\ game_frames = <<>>
    /\ thread_ops = {}
    /\ trash = {}
    /\ delete_log = NoDelete

ScanIdle == DiskIdle /\ ViewerIdle /\ WindowIdle /\ RecordIdle /\ ReviewIdle

LOADER_THREADS_MutantFour == 3 + 1

\* for _ in range(3): threading.Thread(target=self.image_loader_thread, ...)
LOADER_THREADS == 3
Loaders == 1..LOADER_THREADS

\* self.image_queue = queue.Queue(): maxsize is 0, which Queue takes as no limit
maxsize == 0

\* Queue.put waits while the queue is full; with no limit it never is
Full(q) == maxsize > 0 /\ Len(q) >= maxsize
Labels == 1..MaxFrames
NoTask == [label |-> 0, path |-> "none", size |-> <<0, 0>>]
NoImage == [path |-> "none", box |-> <<0, 0>>]

\* the loader threads wait at image_queue.get, no frame was created yet
LoadersWaiting ==
    /\ image_queue = <<>>
    /\ loader = [t \in Loaders |-> [pc |-> "get", task |-> NoTask]]
    /\ img_labels = [l \in Labels |-> NoImage]
    /\ prefetch_log = [l \in Labels |-> "none"]

PrefetchIdle == LoadersWaiting /\ image_files = {}

extractVars == <<folder_name, game_code>>
scrapeVars == <<scrape_args, scrape_result>>
searchVars == <<search_threads>>
resizeVars == <<image_size, target_size, new_size>>
downloadVars == <<image_urls, thumb_dir, thumb_files, requests, download_result,
                  files_at_call>>
storeVars == <<games, last_id, all_games, duplicate_games>>
diskVars == <<has_exe, thumbs, thumb_dirs>>
viewerVars == <<game_paths, skipped_folders, invalid_folders, no_exe_folders,
                scan_pc, registered_folders, path_idx, listing, scan_threads>>
windowVars == <<scan_btn, after_calls, message>>
recordVars == <<run_no, visit_log, runs, changed_cur, changed_prev>>
dialogVars == <<selection, search_dialog>>
reviewVars == <<dialogVars, game_frames, thread_ops, trash, delete_log>>
scanVars == <<diskVars, viewerVars, windowVars, recordVars, reviewVars>>
prefetchVars == <<image_queue, loader, image_files, img_labels, prefetch_log>>

(***************************************************************************)
(* SpecExtract: extract_game_code applied to every folder name of up to    *)
(* MaxNameLen characters.                                                  *)
(***************************************************************************)
RECURSIVE NamesOfLength(_)
NamesOfLength(n) ==
    IF n = 0 THEN {<<>>}
    ELSE {Append(s, c) : s \in NamesOfLength(n - 1), c \in NameChars}

FolderNames(longest) == UNION {NamesOfLength(n) : n \in 0..longest}

InitExtract ==
    /\ folder_name \in FolderNames(MaxNameLen)
    /\ game_code = Pending
    /\ ScrapeIdle /\ SearchIdle /\ ResizeIdle /\ DownloadIdle /\ StoreIdle /\ ScanIdle /\ PrefetchIdle

ExtractGameCode ==
    /\ game_code = Pending
    /\ game_code' = extract_game_code(folder_name)
    /\ UNCHANGED <<folder_name, scrapeVars, searchVars, resizeVars, downloadVars, storeVars, scanVars,
                   prefetchVars>>

NextExtract == ExtractGameCode

SpecExtract == InitExtract /\ [][NextExtract]_vars

(***************************************************************************)
(* SpecResize: resize_image_maintain_aspect applied to small source        *)
(* images and a large one, for the target boxes the program uses.          *)
(***************************************************************************)
SourceSizes == ((1..MaxSide) \X (1..MaxSide)) \cup {<<4000, 2000>>}
TargetSizes == {THUMBNAIL_SIZE, CARD_IMAGE_SIZE, <<200, 100>>}

InitResize ==
    /\ image_size \in SourceSizes
    /\ target_size \in TargetSizes
    /\ new_size = Pending
    /\ ExtractIdle /\ ScrapeIdle /\ SearchIdle /\ DownloadIdle /\ StoreIdle /\ ScanIdle /\ PrefetchIdle

ResizeImage ==
    /\ new_size = Pending
    /\ new_size' = resize_image_maintain_aspect(image_size, target_size)
    /\ UNCHANGED <<image_size, target_size, extractVars, scrapeVars, searchVars, downloadVars, storeVars,
                   scanVars, prefetchVars>>

NextResize == ResizeImage

SpecResize == InitResize /\ [][NextResize]_vars

(***************************************************************************)
(* SpecDownload: download_images called with up to MaxUrls URLs on a cache *)
(* directory that holds any of the five files already.                     *)
(***************************************************************************)
InitDownload ==
    /\ image_urls \in {PageUrls(n) : n \in 0..MaxUrls}
    /\ thumb_files \in [ImageIndexes -> {NoFile, OldFile}]
    /\ thumb_dir \in {d \in BOOLEAN : (\E i \in ImageIndexes : thumb_files[i] # NoFile) => d}
    /\ requests = <<>>
    /\ download_result = Pending
    /\ files_at_call = thumb_files
    /\ ExtractIdle /\ ScrapeIdle /\ SearchIdle /\ ResizeIdle /\ StoreIdle /\ ScanIdle /\ PrefetchIdle

\* os.makedirs(thumb_dir, exist_ok=True) raises: nothing else is done
DownloadMakedirsFails ==
    /\ download_result = Pending
    /\ ~thumb_dir
    /\ download_result' = "raised"
    /\ UNCHANGED <<image_urls, thumb_dir, thumb_files, requests, files_at_call,
                   extractVars, scrapeVars, searchVars, resizeVars, storeVars, scanVars, prefetchVars>>

DownloadImages ==
    /\ download_result = Pending
    /\ \E outcomes \in FetchOutcomes :
          LET st == download_images(thumb_files, image_urls, outcomes)
          IN  /\ thumb_files' = st.files
              /\ requests' = st.requests
    /\ thumb_dir' = TRUE
    /\ download_result' = "returned"
    /\ UNCHANGED <<image_urls, files_at_call, extractVars, scrapeVars, searchVars, resizeVars, storeVars,
                   scanVars, prefetchVars>>

NextDownload == DownloadMakedirsFails \/ DownloadImages

SpecDownload == InitDownload /\ [][NextDownload]_vars

(***************************************************************************)
(* SpecDuplicates: check_duplicate_codes on every store of up to MaxRows   *)
(* rows whose identifiers are drawn from three codes.                      *)
(***************************************************************************)
StoreCodes == {<<"R", "J", "7">>, <<"V", "J", "7">>, <<"R", "J", "7", "7">>}

\* the folder of the i-th row: a folder of its own, named from the code
StoreFolder(i, code) == <<"A", Sep>> \o code \o [k \in 1..i |-> "x"]

StoresOfCodes(codes) ==
    [i \in 1..Len(codes) |->
        Row(i, codes[i], "", StoreFolder(i, codes[i]), <<"game.exe">>, "scan", 1)]

InitDuplicates ==
    /\ \E n \in 0..MaxRows : \E codes \in [1..n -> StoreCodes] :
          /\ games = StoresOfCodes(codes)
          /\ last_id = n
    /\ all_games = SortedByIdDescending(games)
    /\ duplicate_games = Pending
    /\ ExtractIdle /\ ScrapeIdle /\ SearchIdle /\ ResizeIdle /\ DownloadIdle /\ ScanIdle /\ PrefetchIdle

\* check_duplicate_codes: with no duplicate it shows a message and returns;
\* else it lists the rows of every duplicated code and shows page 1.
CheckDuplicateCodes ==
    /\ duplicate_games = Pending
    /\ \E duplicates \in Orderings(DuplicateCodes(games)) :
          /\ duplicate_games' = CollectDuplicates(games, duplicates)
          /\ all_games' = IF duplicates = <<>> THEN all_games ELSE duplicate_games'
    /\ UNCHANGED <<games, last_id, extractVars, scrapeVars, searchVars, resizeVars, downloadVars, scanVars,
                   prefetchVars>>

NextDuplicates == CheckDuplicateCodes

SpecDuplicates == InitDuplicates /\ [][NextDuplicates]_vars

(***************************************************************************)
(* SpecScrape: scrape_game_info called on one identifier, with every       *)
(* answer the network and the disk may give.  The page has its title or    *)
(* not, and each optional element or not; the rating request succeeds with *)
(* a value or fails in one of four ways.  Ratings are counted in           *)
(* hundredths, as rate_average_2dp gives two decimals.                     *)
(***************************************************************************)
RatingAnswers ==
    {[kind |-> "ok", rate |-> 453], [kind |-> "network error", rate |-> 0],
     [kind |-> "status", rate |-> 0], [kind |-> "malformed", rate |-> 0],
     [kind |-> "no key", rate |-> 0]}

\* get_rating without its try / except
get_ratingMutantNoTry(answer) ==
    [rating |-> answer.rate, raised |-> answer.kind # "ok"]

\* get_rating: float(data[game_code].get('rate_average_2dp', 0)), and 0.0 when
\* anything raised
get_rating(answer) ==
    [rating |-> IF answer.kind = "ok" THEN answer.rate ELSE 0, raised |-> FALSE]

\* the pages of SpecScrape: those of PageOutcomes, with each optional element
\* (maker_name, category_type, main_genre) there or not
ScrapePages ==
    {p \in [status : {"fetch_failed", "no_title", "ok"}, images : {0, 2},
            circle : BOOLEAN, work_type : BOOLEAN, genres : BOOLEAN] :
        p.status # "ok" => p.images = 0 /\ ~p.circle /\ ~p.work_type /\ ~p.genres}

RatingRequestedMutantBeforeTitle(page) == page.status # "fetch_failed"

\* rating = self.get_rating(game_code) comes after the title was found
RatingRequested(page) == page.status = "ok"

\* the dictionary scrape_game_info returns
GameInfo(code, page, rating, cover) ==
    [game_code |-> code, title |-> <<"title">>, rating |-> rating,
     circle |-> IF page.circle THEN <<"maker">> ELSE <<"Unknown">>,
     work_type |-> IF page.work_type THEN <<"type">> ELSE <<>>,
     genres |-> IF page.genres THEN <<"genre">> ELSE <<>>,
     cover_image |-> cover]

\* what scrape_game_info returns with all its fields, and the requests it
\* made in their order
ScrapeCall(code, folder_path, files, dir, page, mkdir_ok, outcomes, answer) ==
    LET got == scrape_game_info(code, folder_path, files, dir, page, mkdir_ok, outcomes)
        rated == get_rating(answer)
        downloads == page.status = "ok" /\ page.images > 0 /\ (dir \/ mkdir_ok)
                     /\ files[0] = NoFile
        asked == IF downloads
                 THEN download_images(files, PageUrls(page.images), outcomes).requests
                 ELSE <<>>
    IN  [info |-> IF got.info = NoInfo THEN NoInfo
                  ELSE IF RatingRequested(page) /\ rated.raised THEN NoInfo
                  ELSE GameInfo(code, page, rated.rating, got.info.cover_image),
         files |-> IF RatingRequested(page) /\ rated.raised THEN files ELSE got.files,
         dir |-> IF RatingRequested(page) /\ rated.raised THEN dir ELSE got.dir,
         raised |-> got.raised,
         requests |-> <<"page">>
                      \o (IF RatingRequested(page) THEN <<"rating">> ELSE <<>>)
                      \o (IF RatingRequested(page) /\ rated.raised THEN <<>>
                          ELSE [i \in 1..Len(asked) |-> "image"])]

ScrapeFolder == <<"A", Sep, "R", "J", "7">>

InitScrape ==
    /\ scrape_args \in
          {a \in [code : {<<"R", "J", "7">>, <<"V", "J", "7">>}, dir : BOOLEAN,
                  files : [ImageIndexes -> {NoFile, OldFile}]] :
              /\ (\E i \in ImageIndexes : a.files[i] # NoFile) => a.dir
              /\ \A i \in ImageIndexes : i > 1 => a.files[i] = NoFile}
    /\ scrape_result = NoScrape
    /\ ExtractIdle /\ SearchIdle /\ ResizeIdle /\ DownloadIdle /\ StoreIdle /\ ScanIdle
    /\ PrefetchIdle

ScrapeGameInfo ==
    /\ scrape_result = NoScrape
    /\ \E page \in ScrapePages, mkdir_ok \in BOOLEAN, outcomes \in FetchOutcomes,
          answer \in RatingAnswers :
          scrape_result' =
              [page |-> page, mkdir_ok |-> mkdir_ok, outcomes |-> outcomes,
               answer |-> answer,
               call |-> ScrapeCall(scrape_args.code, ScrapeFolder, scrape_args.files,
                                   scrape_args.dir, page, mkdir_ok, outcomes, answer)]
    /\ UNCHANGED <<scrape_args, extractVars, searchVars, resizeVars, downloadVars, storeVars, scanVars,
                   prefetchVars>>

NextScrape == ScrapeGameInfo

SpecScrape == InitScrape /\ [][NextScrape]_vars

(***************************************************************************)
(* Spec: the scan.  The window starts a worker thread (scan_games), which  *)
(* runs process_folders one directory entry a step and then hands          *)
(* scan_complete or scan_error to the window (perform_scan).  The network  *)
(* answers as it likes at every call; folders may get an executable at any *)
(* time.                                                                   *)
(***************************************************************************)
\* load_game_paths: the settings' paths, normalised, in order
(***************************************************************************)
(* The game frames.  refresh_display destroys the frames and creates one   *)
(* for every row of the first page of all_games; create_game_frame asks    *)
(* for the cover image through image_queue if its file exists, and else    *)
(* writes "no image" on the label.  A task names its label by the row id.  *)
(***************************************************************************)
items_per_page == 20

\* os.path.exists of a cover image path; gone are the folders in the trash
CoverExists(cover, files, gone) ==
    \E f \in Folders \ gone : SameFolder(cover, CoverPath(f)) /\ files[f][0] # NoFile

CoverRequestMutantAlways(game, files, gone) == TRUE

\* if os.path.exists(game[7])
CoverRequest(game, files, gone) == CoverExists(game.cover_image, files, gone)

create_game_frame(game, files, gone) ==
    [game_data |-> game,
     found |-> CoverExists(game.cover_image, files, gone),
     request |-> CoverRequest(game, files, gone),
     text |-> IF CoverRequest(game, files, gone) THEN "loading" ELSE "no image"]

refresh_display(rows, files, gone) ==
    [i \in 1..(IF Len(rows) < items_per_page THEN Len(rows) ELSE items_per_page) |->
        create_game_frame(rows[i], files, gone)]

\* the tasks create_game_frame put for these frames
RefreshTasks(frames) ==
    LET asked == SelectSeq(frames, LAMBDA f : f.request)
    IN  [i \in 1..Len(asked) |->
            [label |-> asked[i].game_data.id, path |-> asked[i].game_data.cover_image,
             size |-> CARD_IMAGE_SIZE]]

GamePathsOf(settings) == [i \in 1..Len(settings) |-> normpath(settings[i])]

Init ==
    /\ \E n \in 1..MaxPaths : \E settings \in [1..n -> SettingsPaths] :
          game_paths = GamePathsOf(settings)
    /\ has_exe \in [Folders -> BOOLEAN]
    /\ thumbs = [f \in Folders |-> [i \in ImageIndexes |-> NoFile]]
    /\ thumb_dirs = {}
    /\ skipped_folders = <<>>
    /\ invalid_folders = <<>>
    /\ no_exe_folders = <<>>
    /\ scan_pc = "idle"
    /\ registered_folders = {}
    /\ path_idx = 1
    /\ listing = <<>>
    /\ scan_threads = 0
    /\ WindowIdle /\ RecordIdle /\ ReviewIdle
    /\ StoreIdle /\ ExtractIdle /\ ScrapeIdle /\ SearchIdle /\ ResizeIdle /\ DownloadIdle /\ PrefetchIdle

\* what the image fetches of one folder's scan may do
ScanFetchOutcomes ==
    {[i \in ImageIndexes |-> "ok"], [i \in ImageIndexes |-> IF i = 0 THEN "fail" ELSE "ok"]}

\* what the network and the disk answer during one folder's visit; an answer
\* that is never asked for (the images of a page that was not fetched) is
\* given one value only
ScanAnswers ==
    {a \in [page : PageOutcomes, mkdir_ok : BOOLEAN, outcomes : ScanFetchOutcomes] :
        /\ (a.page.status # "ok" \/ a.page.images = 0) => a.mkdir_ok
        /\ (a.page.status # "ok" \/ a.page.images = 0 \/ ~a.mkdir_ok)
              => a.outcomes = [i \in ImageIndexes |-> "ok"]}

pureVars == <<extractVars, scrapeVars, searchVars, resizeVars, downloadVars, duplicate_games>>
loaderVars == <<loader, image_files, img_labels, prefetch_log>>
reviewRest == <<dialogVars, game_frames, trash, delete_log>>
otherVars == <<pureVars, prefetchVars, reviewVars>>

\* no dialog holds the grab, and the window is not inside a handler
NoModalDialog == selection.pc = "closed" /\ search_dialog.pc = "closed"
UiFree == selection.pc # "filtering"

\* a blocking operation and the thread that ran it
Op(thread, op) == [thread |-> thread, op |-> op]

ScanButtonMutantLeftNormal == "normal"

\* self.scan_btn.configure(state="disabled", ...)
ScanButtonWhileScanning == "disabled"

\* scan_games, run by the window when the scan button is pressed: a disabled
\* button does not run its command
ScanGames ==
    /\ scan_btn = "normal"
    /\ NoModalDialog
    /\ run_no < MaxRuns
    /\ scan_btn' = ScanButtonWhileScanning
    /\ scan_pc' = "begin"
    /\ scan_threads' = scan_threads + 1
    /\ run_no' = run_no + 1
    /\ changed_prev' = changed_cur
    /\ changed_cur' = FALSE
    /\ UNCHANGED <<games, last_id, all_games, diskVars, game_paths, skipped_folders,
                   invalid_folders, no_exe_folders, registered_folders, path_idx,
                   listing, after_calls, message, visit_log, runs, otherVars>>

LoadRegisteredFoldersMutantNone(rows) == {}

\* SELECT folder_path FROM games; set([os.path.normpath(row[0]) ...])
LoadRegisteredFolders(rows) == {normpath(rows[i].folder_path) : i \in 1..Len(rows)}

\* process_folders up to the loop: the lists are emptied, the stored paths read
ProcessFoldersBegin ==
    /\ scan_pc = "begin"
    /\ invalid_folders' = <<>>
    /\ no_exe_folders' = <<>>
    /\ skipped_folders' = <<>>
    /\ registered_folders' = LoadRegisteredFolders(games)
    /\ path_idx' = 1
    /\ listing' = <<>>
    /\ scan_pc' = "paths"
    /\ visit_log' = <<>>
    /\ runs' = Append(runs, [outcome |-> "running", start_empty |-> games = <<>>,
                             clean |-> FALSE, registered |-> 0, failed |-> 0,
                             skipped |-> 0, invalid |-> 0, no_exe |-> 0,
                             visited |-> 0, no_exe_paths |-> {}, notices |-> <<>>])
    /\ UNCHANGED <<games, last_id, all_games, diskVars, game_paths, windowVars,
                   run_no, changed_cur, changed_prev, scan_threads, otherVars>>

\* for game_path in self.game_paths: a path that does not exist is passed
\* over, else its entries are listed
NextGamePath ==
    /\ scan_pc = "paths"
    /\ path_idx <= Len(game_paths)
    /\ \/ /\ ~PathExists(game_paths[path_idx])
          /\ path_idx' = path_idx + 1
          /\ UNCHANGED <<listing, scan_pc>>
          /\ UNCHANGED thread_ops
       \/ /\ PathExists(game_paths[path_idx])
          /\ listing' = ListDir(game_paths[path_idx])
          /\ scan_pc' = "entries"
          /\ thread_ops' = thread_ops \cup {Op("scan", "enumeration")}
          /\ UNCHANGED path_idx
    /\ UNCHANGED <<games, last_id, all_games, diskVars, game_paths, skipped_folders,
                   invalid_folders, no_exe_folders, registered_folders, windowVars,
                   recordVars, scan_threads, pureVars, prefetchVars, reviewRest>>

CountClass(log, cls) == Len(SelectSeq(log, LAMBDA v : v.cls = cls))

\* perform_scan with the notice of completion in a finally clause
PerformScanNoticesMutantFinally(outcome, cause) ==
    IF outcome = "complete" THEN <<[fn |-> "scan_complete"]>>
    ELSE <<[fn |-> "scan_error", error |-> cause], [fn |-> "scan_complete"]>>

\* perform_scan: what it hands to the window with window.after(0, ...) once
\* process_folders has returned or raised
PerformScanNotices(outcome, cause) ==
    IF outcome = "complete" THEN <<[fn |-> "scan_complete"]>>
    ELSE <<[fn |-> "scan_error", error |-> cause]>>

NoticeNames(notices) == [i \in 1..Len(notices) |-> notices[i].fn]

\* what is recorded of a run when it ends
RunRecord(outcome, log, skipped, invalid, no_exe) ==
    [runs[Len(runs)] EXCEPT
        !.outcome = outcome,
        !.notices = @ \o NoticeNames(PerformScanNotices(outcome, "any")),
        !.clean = ~changed_prev /\ ~changed_cur,
        !.registered = CountClass(log, "Registered"),
        !.failed = CountClass(log, "EnrichmentFailed"),
        !.skipped = Len(skipped),
        !.invalid = Len(invalid),
        !.no_exe = Len(no_exe),
        !.visited = Len(log),
        !.no_exe_paths = {log[i].path : i \in {j \in 1..Len(log) :
                                                 log[j].cls = "NoExecutable"}}]

\* An exception leaves process_folders: perform_scan hands scan_error to the
\* window and the thread ends.
Raise(cause, log, skipped, invalid, no_exe) ==
    /\ after_calls' = after_calls \o PerformScanNotices("error", cause)
    /\ scan_pc' = "idle"
    /\ scan_threads' = scan_threads - 1
    /\ runs' = [runs EXCEPT ![Len(runs)] =
                  RunRecord("error", log, skipped, invalid, no_exe)]

\* os.listdir(game_path) raises OSError
ListDirFails ==
    /\ scan_pc = "paths"
    /\ path_idx <= Len(game_paths)
    /\ PathExists(game_paths[path_idx])
    /\ Raise("listdir", visit_log, skipped_folders, invalid_folders, no_exe_folders)
    /\ UNCHANGED <<games, last_id, all_games, diskVars, game_paths, skipped_folders,
                   invalid_folders, no_exe_folders, registered_folders, path_idx,
                   listing, scan_btn, message, run_no, visit_log, changed_cur,
                   changed_prev, otherVars>>

\* What went wrong, outside the program, while a folder was enriched: the page
\* could not be fetched, it had no title, thumb_imgs could not be created, or
\* an image that was asked for could not be fetched.
FailureOf(files, dir, page, mkdir_ok, outcomes) ==
    IF page.status = "fetch_failed" THEN "fetch"
    ELSE IF page.status = "no_title" THEN "parse"
    ELSE IF page.images = 0 THEN "none"
    ELSE IF ~dir /\ ~mkdir_ok THEN "makedirs"
    ELSE IF /\ files[0] = NoFile
            /\ \E i \in 0..(page.images - 1) : files[i] = NoFile /\ outcomes[i] = "fail"
    THEN "image"
    ELSE "none"

\* one turn of the loop over os.listdir(game_path)
\* the blocking operations of one visit: the page and the images are fetched
\* by scrape_game_info, the images decoded and saved by download_images, the
\* folder walked by get_exe_files
ScanOps(calls, saved) ==
    {Op("scan", "network fetch") : c \in {c \in Elements(calls) : c = "scrape_game_info"}}
    \cup {Op("scan", "enumeration") : c \in {c \in Elements(calls) : c = "get_exe_files"}}
    \cup (IF saved THEN {Op("scan", "image decode"), Op("scan", "image encode")} ELSE {})

VisitEntry ==
    /\ scan_pc = "entries"
    /\ \E answer \in ScanAnswers :
          LET page == answer.page
              mkdir_ok == answer.mkdir_ok
              outcomes == answer.outcomes
              name == Head(listing)
              path == normpath(join(game_paths[path_idx], name))
              st   == [skipped |-> skipped_folders, invalid |-> invalid_folders,
                       no_exe |-> no_exe_folders, registered |-> registered_folders,
                       games |-> games, last_id |-> last_id, thumbs |-> thumbs,
                       thumb_dirs |-> thumb_dirs, cls |-> "none", calls |-> <<>>]
              new  == VisitFolder(st, game_paths[path_idx], name, has_exe, page,
                                  mkdir_ok, outcomes, run_no)
              in_store == \E i \in 1..Len(games) : normpath(games[i].folder_path) = path
              known == \E r \in registered_folders :
                           SameFolder(r, join(game_paths[path_idx], name))
              has_code == extract_game_code(name) # NoCode
              log  == IF new.cls = "NotADirectory" THEN visit_log
                      ELSE Append(visit_log,
                                  [name |-> name,
                                   path |-> path,
                                   cls |-> new.cls,
                                   in_store |-> in_store,
                                   known |-> known,
                                   has_code |-> has_code,
                                   exe |-> has_exe[OnDisk(path)],
                                   failure |-> IF in_store \/ ~has_code THEN "none"
                                               ELSE FailureOf(thumbs[OnDisk(path)],
                                                              OnDisk(path) \in thumb_dirs, page,
                                                              mkdir_ok, outcomes),
                                   calls |-> new.calls,
                                   inserted |-> Len(new.games) - Len(games)])
          IN  /\ skipped_folders' = new.skipped
              /\ invalid_folders' = new.invalid
              /\ no_exe_folders' = new.no_exe
              /\ registered_folders' = new.registered
              /\ games' = new.games
              /\ last_id' = new.last_id
              /\ thumbs' = new.thumbs
              /\ thumb_dirs' = new.thumb_dirs
              /\ visit_log' = log
              /\ thread_ops' = thread_ops \cup ScanOps(new.calls, new.thumbs # thumbs)
              /\ IF new.cls = "Raised"
                 THEN /\ Raise("scrape", log, new.skipped, new.invalid, new.no_exe)
                      /\ UNCHANGED <<listing, path_idx>>
                 ELSE /\ listing' = Tail(listing)
                      /\ path_idx' = IF Tail(listing) = <<>> THEN path_idx + 1 ELSE path_idx
                      /\ scan_pc' = IF Tail(listing) = <<>> THEN "paths" ELSE "entries"
                      /\ UNCHANGED <<after_calls, runs, scan_threads>>
    /\ UNCHANGED <<all_games, has_exe, game_paths, scan_btn, message, run_no,
                   changed_cur, changed_prev, pureVars, prefetchVars, reviewRest>>

\* the loop is over: conn.close(), and perform_scan hands scan_complete over
ProcessFoldersEnd ==
    /\ scan_pc = "paths"
    /\ path_idx > Len(game_paths)
    /\ after_calls' = after_calls \o PerformScanNotices("complete", "none")
    /\ scan_pc' = "idle"
    /\ scan_threads' = scan_threads - 1
    /\ runs' = [runs EXCEPT ![Len(runs)] =
                  RunRecord("complete", visit_log, skipped_folders, invalid_folders,
                            no_exe_folders)]
    /\ UNCHANGED <<games, last_id, all_games, diskVars, game_paths, skipped_folders,
                   invalid_folders, no_exe_folders, registered_folders, path_idx,
                   listing, scan_btn, message, run_no, visit_log, changed_cur,
                   changed_prev, otherVars>>

RemoveAt(q, k) == SubSeq(q, 1, k - 1) \o SubSeq(q, k + 1, Len(q))

\* scan_complete, run by the window: the rows are read again and shown, the
\* button is enabled, the counts are reported
ScanComplete ==
    /\ UiFree
    /\ \E k \in 1..Len(after_calls) :
          /\ after_calls[k].fn = "scan_complete"
          /\ after_calls' = RemoveAt(after_calls, k)
    /\ all_games' = SortedByIdDescending(games)
    /\ LET frames == refresh_display(SortedByIdDescending(games), thumbs, trash)
       IN  /\ game_frames' = frames
           /\ image_queue' = image_queue \o RefreshTasks(frames)
    /\ scan_btn' = "normal"
    /\ message' = [title |-> "scan result",
                   skipped_count |-> Len(skipped_folders),
                   invalid_count |-> Len(invalid_folders),
                   no_exe_count |-> Len(no_exe_folders)]
    /\ UNCHANGED <<games, last_id, diskVars, viewerVars, recordVars, pureVars,
                   loaderVars, dialogVars, thread_ops, trash, delete_log>>

\* scan_complete when preload_data (the store cannot be read) or
\* refresh_display raises: the exception leaves the callback, the statements
\* after it are not run
ScanCompleteFails ==
    /\ UiFree
    /\ \E k \in 1..Len(after_calls) :
          /\ after_calls[k].fn = "scan_complete"
          /\ after_calls' = RemoveAt(after_calls, k)
    /\ \E raised \in {"preload_data", "refresh_display"} :
          IF raised = "preload_data"
          THEN UNCHANGED <<all_games, game_frames>>
          ELSE /\ all_games' = SortedByIdDescending(games)
               /\ game_frames' = <<>>
    /\ UNCHANGED <<games, last_id, diskVars, viewerVars, recordVars, pureVars,
                   prefetchVars, dialogVars, thread_ops, trash, delete_log,
                   scan_btn, message>>

\* scan_error, run by the window
ScanError ==
    /\ UiFree
    /\ \E k \in 1..Len(after_calls) :
          /\ after_calls[k].fn = "scan_error"
          /\ after_calls' = RemoveAt(after_calls, k)
          /\ message' = [title |-> "scan error", error |-> after_calls[k].error]
    /\ scan_btn' = "normal"
    /\ UNCHANGED <<games, last_id, all_games, diskVars, viewerVars, recordVars,
                   otherVars>>

\* Somebody puts an executable into a folder.
AddExe ==
    /\ \E f \in Folders :
          /\ ~has_exe[f]
          /\ has_exe' = [has_exe EXCEPT ![f] = TRUE]
    /\ changed_cur' = TRUE
    /\ UNCHANGED <<games, last_id, all_games, thumbs, thumb_dirs, viewerVars,
                   windowVars, run_no, visit_log, runs, changed_prev, otherVars>>

Next ==
    \/ ScanGames
    \/ ProcessFoldersBegin
    \/ NextGamePath
    \/ ListDirFails
    \/ VisitEntry
    \/ ProcessFoldersEnd
    \/ ScanComplete
    \/ ScanCompleteFails
    \/ ScanError
    \/ AddExe

Spec == Init /\ [][Next]_vars

\* The worker thread, once started, is scheduled until perform_scan returns;
\* the main loop of the window runs every callback handed to window.after.
WorkerStep ==
    ProcessFoldersBegin \/ NextGamePath \/ ListDirFails \/ VisitEntry \/ ProcessFoldersEnd
WindowStep == ScanComplete \/ ScanCompleteFails \/ ScanError

SpecLive == Spec /\ WF_vars(WorkerStep) /\ WF_vars(WindowStep)

(***************************************************************************)
(* SpecPrefetch: the window creates game frames (create_game_frame), each  *)
(* with a label of its own, and asks for the cover image through           *)
(* image_queue; three loader threads (image_loader_thread) take the tasks  *)
(* and hand the images back with window.after.  Image files may disappear  *)
(* at any time.  Waiting at an empty queue (queue.Empty, continue) changes *)
(* nothing and is left out.                                                *)
(***************************************************************************)
CoverImages == {"a.jpg", "b.jpg"}

InitPrefetch ==
    /\ LoadersWaiting
    /\ image_files \in SUBSET CoverImages
    /\ ExtractIdle /\ ScrapeIdle /\ SearchIdle /\ ResizeIdle /\ DownloadIdle /\ StoreIdle /\ ScanIdle

restVars == <<extractVars, scrapeVars, searchVars, resizeVars, downloadVars, storeVars, diskVars, viewerVars,
              scan_btn, message, recordVars, reviewVars>>

Task(label, path, size) == [label |-> label, path |-> path, size |-> size]

\* the end of create_game_frame: the task is put if the cover image exists
CreateGameFrame ==
    /\ \E label \in Labels, cover \in CoverImages :
          /\ prefetch_log[label] = "none"
          /\ \A l \in Labels : l < label => prefetch_log[l] # "none"
          /\ IF cover \in image_files
             THEN /\ ~Full(image_queue)
                  /\ image_queue' = Append(image_queue, Task(label, cover, CARD_IMAGE_SIZE))
                  /\ prefetch_log' = [prefetch_log EXCEPT ![label] = "queued"]
             ELSE /\ prefetch_log' = [prefetch_log EXCEPT ![label] = "no image"]
                  /\ UNCHANGED image_queue
    /\ UNCHANGED <<loader, image_files, img_labels, after_calls, restVars>>

\* An image file is deleted.
RemoveFile ==
    /\ \E f \in image_files : image_files' = image_files \ {f}
    /\ UNCHANGED <<image_queue, loader, img_labels, prefetch_log, after_calls, restVars>>

LoaderAfterMissingMutantBreak == [pc |-> "exited", task |-> NoTask]

\* self.image_queue.task_done(); continue
LoaderAfterMissing == [pc |-> "get", task |-> NoTask]

\* a get that leaves the task in the queue
QueueAfterGetMutantPeek(q) == q

\* Queue.get removes the task it returns
QueueAfterGet(q) == Tail(q)

\* image_queue.get and the test of os.path.exists(img_path)
LoaderGet(t) ==
    /\ loader[t].pc = "get"
    /\ image_queue # <<>>
    /\ image_queue' = QueueAfterGet(image_queue)
    /\ LET task == Head(image_queue)
       IN  IF task.path \notin image_files
           THEN /\ loader' = [loader EXCEPT ![t] = LoaderAfterMissing]
                /\ prefetch_log' = [prefetch_log EXCEPT ![task.label] = "missing"]
           ELSE /\ loader' = [loader EXCEPT ![t] = [pc |-> "load", task |-> task]]
                /\ prefetch_log' = [prefetch_log EXCEPT ![task.label] = "loading"]
    /\ UNCHANGED <<image_files, img_labels, after_calls, restVars>>

\* a lambda without its default arguments, which sees the label of the task
\* the thread took last
DeliveryMutantLateBinding(task) ==
    [fn |-> "update_image_label", label |-> (task.label % MaxFrames) + 1,
     img |-> [path |-> task.path, box |-> task.size]]

\* lambda i=img_label, img=ctk_img: self.update_image_label(i, img)
Delivery(task) ==
    [fn |-> "update_image_label", label |-> task.label,
     img |-> [path |-> task.path, box |-> task.size]]

\* Image.open, the resize and window.after(0, update_image_label); an exception
\* (the file is gone or is no image) is printed; then task_done
LoaderLoad(t) ==
    /\ loader[t].pc = "load"
    /\ \E readable \in BOOLEAN :
          LET task == loader[t].task
          IN  IF task.path \in image_files /\ readable
              THEN /\ after_calls' = Append(after_calls, Delivery(task))
                   /\ prefetch_log' = [prefetch_log EXCEPT ![task.label] = "delivered"]
              ELSE /\ prefetch_log' = [prefetch_log EXCEPT ![task.label] = "failed"]
                   /\ UNCHANGED after_calls
    /\ loader' = [loader EXCEPT ![t] = [pc |-> "get", task |-> NoTask]]
    /\ UNCHANGED <<image_queue, image_files, img_labels, restVars>>

\* update_image_label, run by the window; configure raises if the label was
\* destroyed, which is printed
UpdateImageLabel ==
    /\ \E k \in 1..Len(after_calls), destroyed \in BOOLEAN :
          /\ after_calls[k].fn = "update_image_label"
          /\ after_calls' = RemoveAt(after_calls, k)
          /\ img_labels' = IF destroyed THEN img_labels
                           ELSE [img_labels EXCEPT ![after_calls[k].label] = after_calls[k].img]
    /\ UNCHANGED <<image_queue, loader, image_files, prefetch_log, restVars>>

NextPrefetch ==
    \/ CreateGameFrame
    \/ RemoveFile
    \/ \E t \in Loaders : LoaderGet(t)
    \/ \E t \in Loaders : LoaderLoad(t)
    \/ UpdateImageLabel

SpecPrefetch == InitPrefetch /\ [][NextPrefetch]_vars

\* the loader threads loop for as long as the program runs (the 60 s timeout
\* of get only restarts the loop) and the window's event loop runs every
\* callback handed to after
PrefetchFairness ==
    /\ \A t \in Loaders : WF_vars(LoaderGet(t)) /\ WF_vars(LoaderLoad(t))
    /\ WF_vars(UpdateImageLabel)

\* the cards made in the behaviours checked for what happens in the end
MaxLiveFrames == 3

LiveFrames == \A l \in Labels : l > MaxLiveFrames => prefetch_log[l] = "none"

NextPrefetchLive ==
    \/ CreateGameFrame /\ LiveFrames'
    \/ RemoveFile
    \/ \E t \in Loaders : LoaderGet(t)
    \/ \E t \in Loaders : LoaderLoad(t)
    \/ UpdateImageLabel

SpecPrefetchLive == InitPrefetch /\ [][NextPrefetchLive]_vars /\ PrefetchFairness

(***************************************************************************)
(* SpecReview: the scan together with the review surface.  The window      *)
(* filters invalid_folders against the store and offers what is left      *)
(* (process_invalid_folders, show_folder_selection_dialog); a click on a   *)
(* folder opens GameInfoSearchDialog, which searches images on threads of  *)
(* its own, lets the user pick one (select_image, save_selected_image) and *)
(* registers the folder by hand (save_manual_info).  The dialogs hold the  *)
(* grab, so the scan button cannot be clicked while one is open; a scan    *)
(* that was started before goes on.                                        *)
(***************************************************************************)
InStoreRawMutantNever(rows, folder_path) == FALSE

\* SELECT 1 FROM games WHERE folder_path = ?
InStoreRaw(rows, folder_path) ==
    \E i \in 1..Len(rows) : rows[i].folder_path = folder_path

\* list.remove: the first occurrence goes, ValueError is passed over
RemoveFirst(q, x) ==
    IF x \notin Elements(q) THEN q
    ELSE LET k == CHOOSE i \in 1..Len(q) : q[i] = x /\ \A j \in 1..(i - 1) : q[j] # x
         IN  RemoveAt(q, k)

viewerRest == <<game_paths, skipped_folders, no_exe_folders, scan_pc,
                registered_folders, path_idx, listing, scan_threads>>
recordRest == <<run_no, visit_log, runs, changed_prev>>

\* process_invalid_folders, the list comprehension: the window reads
\* invalid_folders and keeps the folders that are in no row
ProcessInvalidFoldersFilter ==
    /\ NoModalDialog
    /\ selection.opened < MaxReviews
    /\ selection' = [pc |-> "filtering",
                     folders |-> SelectSeq(invalid_folders,
                                           LAMBDA f : ~InStoreRaw(games, f)),
                     opened |-> selection.opened + 1]
    /\ UNCHANGED <<storeVars, diskVars, viewerVars, windowVars, recordVars, pureVars,
                   prefetchVars, search_dialog, game_frames, thread_ops, trash,
                   delete_log>>

\* process_invalid_folders, the rest: the list is assigned; a message if it is
\* empty, else the selection dialog
ProcessInvalidFolders ==
    /\ selection.pc = "filtering"
    /\ invalid_folders' = selection.folders
    /\ IF selection.folders = <<>>
       THEN /\ selection' = [selection EXCEPT !.pc = "closed"]
            /\ message' = [title |-> "no folder to process"]
       ELSE /\ selection' = [selection EXCEPT !.pc = "open"]
            /\ UNCHANGED message
    /\ UNCHANGED <<storeVars, diskVars, viewerRest, scan_btn, after_calls, recordVars,
                   pureVars, prefetchVars, search_dialog, game_frames, thread_ops,
                   trash, delete_log>>

\* the selection dialog is closed without a choice
CloseSelection ==
    /\ selection.pc = "open"
    /\ selection' = [selection EXCEPT !.pc = "closed", !.folders = <<>>]
    /\ UNCHANGED <<storeVars, diskVars, viewerVars, windowVars, recordVars, pureVars,
                   prefetchVars, search_dialog, game_frames, thread_ops, trash,
                   delete_log>>

\* open_search_dialog: GameInfoSearchDialog.__init__ ends with search_images,
\* which starts the perform_image_search thread
OpenSearchDialog ==
    /\ selection.pc = "open"
    /\ \E k \in 1..Len(selection.folders) :
          search_dialog' = [pc |-> "searching", folder_path |-> selection.folders[k],
                            downloaded_image_path |-> <<>>]
    /\ selection' = [selection EXCEPT !.pc = "closed", !.folders = <<>>]
    /\ UNCHANGED <<storeVars, diskVars, viewerVars, windowVars, recordVars, pureVars,
                   prefetchVars, game_frames, thread_ops, trash, delete_log>>

\* search_images by the button or the Return key, once the results are in
SearchImages ==
    /\ search_dialog.pc \in {"shown", "empty"}
    /\ search_dialog' = [search_dialog EXCEPT !.pc = "searching"]
    /\ UNCHANGED <<storeVars, diskVars, viewerVars, windowVars, recordVars, pureVars,
                   prefetchVars, selection, game_frames, thread_ops, trash, delete_log>>

\* perform_image_search, on its thread: search_google_images, then
\* display_image_results is handed to the dialog
PerformImageSearch ==
    /\ search_dialog.pc = "searching"
    /\ search_dialog' = [search_dialog EXCEPT !.pc = "display"]
    /\ thread_ops' = thread_ops \cup {Op("image search", "network fetch")}
    /\ UNCHANGED <<storeVars, diskVars, viewerVars, windowVars, recordVars, pureVars,
                   prefetchVars, selection, game_frames, trash, delete_log>>

\* display_image_results, run by the dialog: it starts load_and_display_images
DisplayImageResults ==
    /\ search_dialog.pc = "display"
    /\ search_dialog' = [search_dialog EXCEPT !.pc = "loading"]
    /\ UNCHANGED <<storeVars, diskVars, viewerVars, windowVars, recordVars, pureVars,
                   prefetchVars, selection, game_frames, thread_ops, trash, delete_log>>

\* load_and_display_images, on its thread: every image is fetched and decoded,
\* a button is made for each that loaded
LoadAndDisplayImages ==
    /\ search_dialog.pc = "loading"
    /\ \E loaded \in BOOLEAN :
          /\ search_dialog' = [search_dialog EXCEPT
                                  !.pc = IF loaded THEN "shown" ELSE "empty"]
          /\ thread_ops' = thread_ops
                \cup {Op("image load", "network fetch")}
                \cup (IF loaded THEN {Op("image load", "image decode")} ELSE {})
    /\ UNCHANGED <<storeVars, diskVars, viewerVars, windowVars, recordVars, pureVars,
                   prefetchVars, selection, game_frames, trash, delete_log>>

PickedImage == <<"picked", 0>>

\* select_image and save_selected_image, the command of an image button: the
\* image is fetched, decoded, resized and saved as thumb_imgs/00.jpg
SelectImage ==
    /\ search_dialog.pc = "shown"
    /\ \E outcome \in {"fetch failed", "save failed", "saved"} :
          LET f == OnDisk(search_dialog.folder_path)
          IN  /\ thread_ops' = thread_ops
                    \cup {Op("window", "network fetch")}
                    \cup (IF outcome # "fetch failed"
                          THEN {Op("window", "image decode")} ELSE {})
                    \cup (IF outcome = "saved"
                          THEN {Op("window", "image encode")} ELSE {})
              /\ IF outcome = "saved"
                 THEN /\ thumb_dirs' = thumb_dirs \cup {f}
                      /\ thumbs' = [thumbs EXCEPT ![f][0] = PickedImage]
                      /\ search_dialog' = [search_dialog EXCEPT
                                              !.downloaded_image_path =
                                                  join(join(search_dialog.folder_path,
                                                            <<"thumb_imgs">>), <<"00.jpg">>)]
                      /\ changed_cur' = TRUE
                      /\ UNCHANGED message
                 ELSE /\ message' = IF outcome = "fetch failed"
                                    THEN [title |-> "error", error |-> "select_image"]
                                    ELSE message
                      /\ UNCHANGED <<thumb_dirs, thumbs, search_dialog, changed_cur>>
    /\ UNCHANGED <<storeVars, has_exe, viewerVars, scan_btn, after_calls, recordRest,
                   pureVars, prefetchVars, selection, game_frames, trash, delete_log>>

\* the game code: the field is left empty, so it is MANUAL_ and the time
ManualCodes == {<<"MANUAL_", "time">>}

\* save_manual_info up to the success message; on_msgbox_close is left to the
\* message box with after(200, ...)
ManualRows == {i \in 1..Len(games) : games[i].by = "manual"}

SaveManualInfo ==
    /\ search_dialog.pc \in {"searching", "display", "loading", "shown", "empty"}
    /\ Cardinality(ManualRows) < MaxManual
    /\ \E title \in BOOLEAN, code \in ManualCodes :
          IF ~title
          THEN /\ message' = [title |-> "title required"]
               /\ UNCHANGED <<games, last_id, after_calls, search_dialog, thread_ops,
                              changed_cur>>
          ELSE /\ games' = Append(games,
                                  Row(last_id + 1, code,
                                      search_dialog.downloaded_image_path,
                                      search_dialog.folder_path,
                                      JsonDumps(ExeList(search_dialog.folder_path, has_exe)),
                                      "manual", run_no))
               /\ last_id' = last_id + 1
               /\ thread_ops' = thread_ops \cup {Op("window", "enumeration")}
               /\ message' = [title |-> "registered"]
               /\ after_calls' = Append(after_calls,
                                        [fn |-> "on_msgbox_close",
                                         folder_path |-> search_dialog.folder_path])
               /\ search_dialog' = [search_dialog EXCEPT !.pc = "saved"]
               /\ changed_cur' = TRUE
    /\ UNCHANGED <<all_games, duplicate_games, diskVars, viewerVars, scan_btn,
                   recordRest, extractVars, scrapeVars, searchVars, resizeVars, downloadVars, prefetchVars,
                   selection, game_frames, trash, delete_log>>

\* hasattr(self.dialog.master, 'viewer'): the master is the window, which is
\* given no such attribute
MasterHasViewer == FALSE

\* on_msgbox_close: the folder leaves invalid_folders if the viewer is found,
\* refresh_display (the callback) shows all_games as it is, the dialog is
\* destroyed
OnMsgboxClose ==
    /\ UiFree
    /\ \E k \in 1..Len(after_calls) :
          /\ after_calls[k].fn = "on_msgbox_close"
          /\ after_calls' = RemoveAt(after_calls, k)
          /\ invalid_folders' = IF MasterHasViewer
                                THEN RemoveFirst(invalid_folders, after_calls[k].folder_path)
                                ELSE invalid_folders
    /\ LET frames == refresh_display(all_games, thumbs, trash)
       IN  /\ game_frames' = frames
           /\ image_queue' = image_queue \o RefreshTasks(frames)
    /\ search_dialog' = NoSearchDialog
    /\ UNCHANGED <<storeVars, diskVars, viewerRest, scan_btn, message, recordVars,
                   pureVars, loaderVars, selection, thread_ops, trash, delete_log>>

\* the search dialog is closed without saving
CloseSearchDialog ==
    /\ search_dialog.pc \in {"searching", "display", "loading", "shown", "empty"}
    /\ search_dialog' = NoSearchDialog
    /\ UNCHANGED <<storeVars, diskVars, viewerVars, windowVars, recordVars, pureVars,
                   prefetchVars, selection, game_frames, thread_ops, trash, delete_log>>

\* settings.json names the one watched directory, with a "/" at its end; the
\* folder without identifier holds no executable
InitReview ==
    /\ game_paths = GamePathsOf(<< <<"A", "/">> >>)
    /\ has_exe \in {exe \in [Folders -> BOOLEAN] : ~exe[<<"A", Sep, "x">>]}
    /\ thumbs = [f \in Folders |-> [i \in ImageIndexes |-> NoFile]]
    /\ thumb_dirs = {}
    /\ skipped_folders = <<>>
    /\ invalid_folders = <<>>
    /\ no_exe_folders = <<>>
    /\ scan_pc = "idle"
    /\ registered_folders = {}
    /\ path_idx = 1
    /\ listing = <<>>
    /\ scan_threads = 0
    /\ WindowIdle /\ RecordIdle /\ ReviewIdle
    /\ StoreIdle /\ ExtractIdle /\ ScrapeIdle /\ SearchIdle /\ ResizeIdle /\ DownloadIdle /\ PrefetchIdle

NextReview ==
    \/ ScanGames
    \/ ProcessFoldersBegin
    \/ NextGamePath
    \/ ListDirFails
    \/ VisitEntry
    \/ ProcessFoldersEnd
    \/ ScanComplete
    \/ ScanError
    \/ ProcessInvalidFoldersFilter
    \/ ProcessInvalidFolders
    \/ CloseSelection
    \/ OpenSearchDialog
    \/ SearchImages
    \/ PerformImageSearch
    \/ DisplayImageResults
    \/ LoadAndDisplayImages
    \/ SelectImage
    \/ SaveManualInfo
    \/ OnMsgboxClose
    \/ CloseSearchDialog

SpecReview == InitReview /\ [][NextReview]_vars

\* process_invalid_folders, the list comprehension, when the review surface
\* is opened once more after a folder was registered by hand
ProcessInvalidFoldersFilterAgain ==
    /\ NoModalDialog
    /\ ManualRows # {}
    /\ selection.opened = MaxReviews
    /\ selection' = [pc |-> "filtering",
                     folders |-> SelectSeq(invalid_folders,
                                           LAMBDA f : ~InStoreRaw(games, f)),
                     opened |-> selection.opened + 1]
    /\ UNCHANGED <<storeVars, diskVars, viewerVars, windowVars, recordVars, pureVars,
                   prefetchVars, search_dialog, game_frames, thread_ops, trash,
                   delete_log>>

\* the list offered the second time is looked at and closed
NextReviewAgain ==
    \/ NextReview /\ (selection.opened > MaxReviews => search_dialog' = search_dialog)
    \/ ProcessInvalidFoldersFilterAgain

SpecReviewAgain == InitReview /\ [][NextReviewAgain]_vars

(***************************************************************************)
(* SpecEdit: SpecReview together with the game information dialog.  The    *)
(* key "i" opens GameInfoDialog on the selected frame; update_info writes  *)
(* every column of the row from the text boxes, the folder path as it was  *)
(* typed.                                                                  *)
(***************************************************************************)
\* a path as somebody types it, with "/" between the names
WithSlashes(path) == [i \in 1..Len(path) |-> IF path[i] = Sep THEN "/" ELSE path[i]]

\* what the folder path box may hold when the button is pressed
TypedPaths == {WithSlashes(f) : f \in Folders}

RECURSIVE EditsMade(_)
EditsMade(rows) == IF rows = <<>> THEN 0 ELSE Head(rows).edits + EditsMade(Tail(rows))

\* UPDATE games SET game_code=?, ..., cover_image=?, folder_path=?, exe_files=?
\* WHERE id=?
UpdateRow(rows, game, text) ==
    [i \in 1..Len(rows) |->
        IF rows[i].id # game.id THEN rows[i]
        ELSE [rows[i] EXCEPT !.game_code = game.game_code,
                             !.cover_image = game.cover_image,
                             !.folder_path = text,
                             !.exe_files = game.exe_files,
                             !.edits = @ + 1]]

\* GameInfoDialog on the selected frame and its update_info: the dialog lists
\* and opens the images of thumb_imgs, the row is rewritten, refresh_display
\* (the callback) shows all_games as it is
UpdateInfo ==
    /\ NoModalDialog
    /\ EditsMade(games) < MaxEdits
    /\ \E k \in 1..Len(game_frames), text \in TypedPaths :
          LET game == game_frames[k].game_data
              dirs == {f \in thumb_dirs : SameFolder(f, game.folder_path)}
          IN  /\ games' = UpdateRow(games, game, text)
              /\ thread_ops' = thread_ops
                    \cup {Op("window", "enumeration") : f \in dirs}
                    \cup {Op("window", "image decode") :
                             f \in {d \in dirs : \E i \in ImageIndexes : thumbs[d][i] # NoFile}}
    /\ message' = [title |-> "updated"]
    /\ LET frames == refresh_display(all_games, thumbs, trash)
       IN  /\ game_frames' = frames
           /\ image_queue' = image_queue \o RefreshTasks(frames)
    /\ changed_cur' = TRUE
    /\ UNCHANGED <<last_id, all_games, duplicate_games, diskVars, viewerVars, scan_btn,
                   after_calls, recordRest, extractVars, scrapeVars, searchVars, resizeVars, downloadVars,
                   loaderVars, dialogVars, trash, delete_log>>

NextEdit ==
    \/ ScanGames
    \/ ProcessFoldersBegin
    \/ NextGamePath
    \/ ListDirFails
    \/ VisitEntry
    \/ ProcessFoldersEnd
    \/ ScanComplete
    \/ ScanError
    \/ ProcessInvalidFoldersFilter
    \/ ProcessInvalidFolders
    \/ CloseSelection
    \/ OpenSearchDialog
    \/ SearchImages
    \/ PerformImageSearch
    \/ DisplayImageResults
    \/ LoadAndDisplayImages
    \/ SelectImage
    \/ SaveManualInfo
    \/ OnMsgboxClose
    \/ CloseSearchDialog
    \/ UpdateInfo

SpecEdit == InitReview /\ [][NextEdit]_vars

(***************************************************************************)
(* C1.  For every folder name, extract_game_code returns the leftmost      *)
(* substring made of 'R' or 'V', then 'J', then one or more digits, with   *)
(* the whole run of digits, wherever it is in the name; it returns nothing *)
(* exactly when the name has no such substring.                            *)
(***************************************************************************)
\* s[i..j] is [RV], J and then digits only, at least one
IsCodeAt(s, i, j) ==
    /\ 1 <= i /\ i + 2 <= j /\ j <= Len(s)
    /\ s[i] \in {"R", "V"}
    /\ s[i + 1] = "J"
    /\ \A k \in (i + 2)..j : IsDigit(s[k])

HasCodeAt(s, i) == \E j \in 1..Len(s) : IsCodeAt(s, i, j)

C1_ExtractLeftmostWholeRun ==
    game_code # Pending =>
        IF \E i \in 1..Len(folder_name) : HasCodeAt(folder_name, i)
        THEN \E i, j \in 1..Len(folder_name) :
                /\ IsCodeAt(folder_name, i, j)
                /\ \A k \in 1..(i - 1) : ~HasCodeAt(folder_name, k)
                /\ j = Len(folder_name) \/ ~IsDigit(folder_name[j + 1])
                /\ game_code = SubSeq(folder_name, i, j)
        ELSE game_code = NoCode

\* a code of two digits in the middle of a name
C1_Witness ==
    /\ game_code # Pending
    /\ Len(game_code) = 4
    /\ Len(folder_name) = 6
    /\ game_code = SubSeq(folder_name, 2, 5)
    /\ ~IsDigit(folder_name[6])

(***************************************************************************)
(* C7.  For every source size and target size of positive integers the     *)
(* new size fits the target box, one dimension is the target's and the     *)
(* other is the source-proportional value rounded down; 4000x2000 into     *)
(* 200x100 gives 200x100.                                                  *)
(***************************************************************************)
\* the proportional size in exact arithmetic
ProportionalSize(size, target) ==
    IF size[1] * target[2] > target[1] * size[2]
    THEN <<target[1], (target[1] * size[2]) \div size[1]>>
    ELSE <<(target[2] * size[1]) \div size[2], target[2]>>

C7_ResizeProportionalRoundedDown ==
    new_size # Pending =>
        /\ new_size[1] <= target_size[1]
        /\ new_size[2] <= target_size[2]
        /\ new_size = ProportionalSize(image_size, target_size)
        /\ (image_size = <<4000, 2000>> /\ target_size = <<200, 100>>
                => new_size = <<200, 100>>)


(***************************************************************************)
(* C4.  download_images never fetches a URL whose destination file exists  *)
(* already and never changes that file: for every index i in 0..4 whose    *)
(* file exists when the call starts, no request is made for the i-th URL   *)
(* and the file is the same after the call, while every other index among  *)
(* the first five URLs is attempted.                                       *)
(***************************************************************************)
RequestedIndexes == {requests[k].idx : k \in 1..Len(requests)}

C4_ExistingFileNotFetchedNorChanged ==
    download_result = "returned" =>
        /\ \A i \in ImageIndexes :
              files_at_call[i] # NoFile =>
                  /\ i \notin RequestedIndexes
                  /\ thumb_files[i] = files_at_call[i]
        /\ \A j \in ImageIndexes :
              (j < Len(image_urls) /\ files_at_call[j] = NoFile) => j \in RequestedIndexes

\* 00.jpg was there, six URLs were given, and the other four were attempted
C4_Witness ==
    /\ download_result = "returned"
    /\ Len(image_urls) = MaxUrls
    /\ files_at_call[0] # NoFile
    /\ RequestedIndexes = ImageIndexes \ {0}
    /\ thumb_files[0] = OldFile
    /\ \E j \in ImageIndexes : thumb_files[j] \notin {NoFile, OldFile}


(***************************************************************************)
(* C5.  For every store content the duplicate query returns exactly the    *)
(* entries whose identifier is shared by two or more entries: each of them *)
(* once, grouped under its identifier, and no entry whose identifier is    *)
(* unique in the store.                                                    *)
(***************************************************************************)
SharesCode(rows, r) == \E i \in 1..Len(rows) : rows[i].game_code = r.game_code /\ rows[i].id # r.id

C5_DuplicatesExactlySharedCodes ==
    duplicate_games # Pending =>
        /\ \A i \in 1..Len(games) :
              SharesCode(games, games[i]) =>
                  Cardinality({k \in 1..Len(duplicate_games) : duplicate_games[k] = games[i]}) = 1
        /\ \A k \in 1..Len(duplicate_games) :
              /\ \E i \in 1..Len(games) : games[i] = duplicate_games[k]
              /\ SharesCode(games, duplicate_games[k])
        /\ \A i, j, k \in 1..Len(duplicate_games) :
              (i < j /\ j < k /\ duplicate_games[i].game_code = duplicate_games[k].game_code)
                  => duplicate_games[j].game_code = duplicate_games[i].game_code

\* two duplicated codes and a unique one: four rows returned, one left out
C5_Witness ==
    /\ duplicate_games # Pending
    /\ Len(duplicate_games) = 4
    /\ Len(games) = 5
    /\ duplicate_games[1].game_code # duplicate_games[4].game_code


(***************************************************************************)
(* C2.  Starting from an empty store, after a scan run has completed, a    *)
(* second run with no folder added, removed or changed in between inserts  *)
(* no entry, and the number of folders it classifies as Skipped equals the *)
(* number of entries the prior run Registered.                             *)
(* As stated (C2_RescanSkippedEqualsRegistered) this fails: a folder whose *)
(* enrichment failed in the prior run is tried again and may be inserted,  *)
(* and a folder met twice in the prior run was Registered once and Skipped *)
(* once there.  What holds (C2_RescanInsertsNothing): provided the prior   *)
(* run classified no folder EnrichmentFailed, the second run inserts no    *)
(* entry and its Skipped count is the prior run's Registered count plus    *)
(* the prior run's Skipped count.                                          *)
(***************************************************************************)
\* runs k - 1 and k both completed, k - 1 began with an empty store and no
\* folder changed since it began
RescanOf(k) ==
    /\ k \in 2..Len(runs)
    /\ runs[k - 1].outcome = "complete"
    /\ runs[k - 1].start_empty
    /\ runs[k].outcome = "complete"
    /\ runs[k].clean

Enriched(v) == v.has_code /\ ~v.in_store /\ v.failure \in {"none", "image"}

NoExeEarlier(path) ==
    \E k \in 1..(Len(runs) - 1) : path \in runs[k].no_exe_paths

C3_NoExecutableNeverInsertedAndRevisited ==
    \A i \in 1..Len(visit_log) :
        LET v == visit_log[i]
        IN  /\ (Enriched(v) /\ ~v.exe) =>
                  /\ v.cls = "NoExecutable"
                  /\ v.inserted = 0
            /\ (NoExeEarlier(v.path) /\ ~v.in_store) =>
                  v.cls \in {"EnrichmentFailed", "NoExecutable", "Registered"}

\* a folder was NoExecutable in the first run and again in the second
C3_Witness ==
    /\ Len(runs) = 2
    /\ \E i \in 1..Len(visit_log) :
          /\ NoExeEarlier(visit_log[i].path)
          /\ Enriched(visit_log[i])
          /\ ~visit_log[i].exe
          /\ visit_log[i].cls = "NoExecutable"
    /\ games = <<>>


(***************************************************************************)
(* C8.  A failure while one folder is processed (the page cannot be        *)
(* fetched or parsed, thumb_imgs cannot be created, an image cannot be     *)
(* downloaded) becomes a classification of that folder and never aborts    *)
(* the run: no scan_error comes from a folder, the loop goes on to the     *)
(* next entry, and a run that ends by itself ends with scan_complete after *)
(* visiting every directory of every watched path.                         *)
(***************************************************************************)
Classifications == {"Registered", "Skipped", "NoIdentifier", "EnrichmentFailed", "NoExecutable"}

DirectoriesIn(game_path) ==
    Cardinality({i \in 1..Len(ListDir(game_path)) : IsDir(join(game_path, ListDir(game_path)[i]))})

RECURSIVE DirectoriesUnder(_)
DirectoriesUnder(paths) ==
    IF paths = <<>> THEN 0
    ELSE (IF PathExists(Head(paths)) THEN DirectoriesIn(Head(paths)) ELSE 0)
         + DirectoriesUnder(Tail(paths))

C8_FolderFailuresNeverAbort ==
    /\ \A i \in 1..Len(visit_log) :
          visit_log[i].failure # "none" => visit_log[i].cls \in Classifications
    /\ \A k \in 1..Len(after_calls) :
          after_calls[k].fn = "scan_error" => after_calls[k].error = "listdir"
    /\ message.title = "scan error" => message.error = "listdir"
    /\ \A k \in 1..Len(runs) :
          runs[k].outcome = "complete" => runs[k].visited = DirectoriesUnder(game_paths)

\* a run met a page that could not be fetched and a folder whose thumb_imgs
\* could not be created, and completed
C8_Witness ==
    /\ Len(runs) > 0
    /\ runs[Len(runs)].outcome = "complete"
    /\ scan_pc = "idle"
    /\ \E i, j \in 1..Len(visit_log) :
          /\ visit_log[i].failure = "fetch"
          /\ visit_log[j].failure = "makedirs"
          /\ i < j
    /\ \E k \in 1..Len(after_calls) : after_calls[k].fn = "scan_complete"


(***************************************************************************)
(* C9.  In one run every directory visited gets exactly one of Registered, *)
(* Skipped, NoIdentifier, EnrichmentFailed, NoExecutable, so that at every *)
(* moment of the run, and at its end, the number of directories visited is *)
(* the number of entries the run inserted plus the lengths of the skipped, *)
(* invalid (NoIdentifier / EnrichmentFailed) and no-executable lists.      *)
(***************************************************************************)
InsertedByRun(k) ==
    Cardinality({i \in 1..Len(games) : games[i].by = "scan" /\ games[i].run = k})

C9_EveryVisitClassifiedOnce ==
    Len(runs) > 0 =>
        /\ \A i \in 1..Len(visit_log) : visit_log[i].cls \in Classifications
        /\ Len(visit_log) = InsertedByRun(Len(runs)) + Len(skipped_folders)
                            + Len(invalid_folders) + Len(no_exe_folders)
        /\ CountClass(visit_log, "Registered") = InsertedByRun(Len(runs))
        /\ CountClass(visit_log, "Skipped") = Len(skipped_folders)
        /\ CountClass(visit_log, "NoIdentifier") + CountClass(visit_log, "EnrichmentFailed")
              = Len(invalid_folders)
        /\ CountClass(visit_log, "NoExecutable") = Len(no_exe_folders)

\* a completed run that visited four directories and filled every list
C9_Witness ==
    /\ Len(runs) > 0
    /\ runs[Len(runs)].outcome = "complete"
    /\ Len(visit_log) = 4
    /\ InsertedByRun(Len(runs)) = 1
    /\ Len(skipped_folders) = 1
    /\ Len(invalid_folders) = 2
    /\ CountClass(visit_log, "EnrichmentFailed") = 0


(***************************************************************************)
(* C10.  The report of a run gives, separately for Skipped, NoIdentifier,  *)
(* EnrichmentFailed and NoExecutable, the count and the folder paths so    *)
(* classified: a folder without identifier and a folder whose enrichment   *)
(* failed are never in the same list, and every list holds folder paths.   *)
(* As stated (C10_FourListsOfPaths) this fails.  What holds                *)
(* (C10_ThreeListsReported): the report has three lists; skipped_folders   *)
(* holds the names of the Skipped folders, invalid_folders the paths of    *)
(* the NoIdentifier and of the EnrichmentFailed folders together,          *)
(* no_exe_folders the names of the NoExecutable folders, each in visit     *)
(* order, and the completion message gives the three lengths.              *)
(***************************************************************************)
RECURSIVE Classified(_, _, _)
Classified(log, classes, field) ==
    IF log = <<>> THEN <<>>
    ELSE (IF Head(log).cls \in classes THEN <<Head(log)[field]>> ELSE <<>>)
         \o Classified(Tail(log), classes, field)

Reported == message.title = "scan result" /\ scan_btn = "normal"

C6_MissingSourceNoDeliveryNoError ==
    /\ \A l \in Labels :
          prefetch_log[l] = "missing" =>
              /\ \A k \in 1..Len(after_calls) :
                    after_calls[k].fn = "update_image_label" => after_calls[k].label # l
              /\ img_labels[l] = NoImage
              /\ \A t \in Loaders : loader[t].task.label # l
    /\ \A t \in Loaders : loader[t].pc \in {"get", "load"}

\* the first request found its file gone, the second was delivered and shown,
\* the third found its file gone
C6_Witness ==
    /\ prefetch_log[1] = "missing"
    /\ prefetch_log[2] = "delivered"
    /\ prefetch_log[3] = "missing"
    /\ img_labels[2] # NoImage


(***************************************************************************)
(* C11.  Every row a scan run inserts has a non-empty list of executables: *)
(* the exe_files text of a row written by process_folders is never the     *)
(* text of the empty list, and a visit that ended Registered saw an        *)
(* executable in the folder.                                               *)
(***************************************************************************)
C11_ScanRowsHaveExecutables ==
    /\ \A i \in 1..Len(games) :
          games[i].by = "scan" => games[i].exe_files[2] # <<>>
    /\ \A i \in 1..Len(visit_log) :
          visit_log[i].cls = "Registered" => visit_log[i].exe

\* one run that left a folder without executable out and, after an executable
\* was put into it, a second run that inserted it with its executable
C11_Witness ==
    /\ Len(runs) = 2
    /\ runs[1].no_exe = 1
    /\ runs[1].registered = 0
    /\ \E i \in 1..Len(games) :
          /\ games[i].by = "scan"
          /\ games[i].run = 2
          /\ games[i].exe_files = JsonDumps(<<"game.exe">>)


(***************************************************************************)
(* C14.  At most one scan run is in flight: from the click on the scan     *)
(* button until scan_complete or scan_error has been run by the window the *)
(* button is disabled, and never is a second perform_scan thread started   *)
(* while one runs.                                                         *)
(***************************************************************************)
NoticePending ==
    \E k \in 1..Len(after_calls) : after_calls[k].fn \in {"scan_complete", "scan_error"}

ScanInFlight == scan_pc # "idle" \/ NoticePending

\* C14: never more than one scan thread, and none is started while one runs
\* or its notice is pending
C14_OneScanInFlight ==
    /\ scan_threads <= 1
    /\ Len(SelectSeq(after_calls,
                     LAMBDA c : c.fn \in {"scan_complete", "scan_error"})) <= 1
    /\ (scan_threads = 1) = (scan_pc # "idle")
    /\ ScanInFlight => scan_btn = "disabled"
    /\ ScanInFlight => ~ENABLED ScanGames

\* the second run's thread has ended, its notice is not yet handled, and the
\* button is still disabled
C14_Witness ==
    /\ run_no = 2
    /\ scan_threads = 0
    /\ NoticePending
    /\ scan_btn = "disabled"


(***************************************************************************)
(* C19.  For a folder whose normalized path is in the store when it is     *)
(* visited (loaded at the start of the run, or inserted earlier in the     *)
(* run) the run calls neither extract_game_code nor scrape_game_info (the  *)
(* page and the images) nor get_exe_files, and writes no row: the skip     *)
(* check comes before all of them.                                         *)
(***************************************************************************)
C19_KnownFolderCostsNothing ==
    \A i \in 1..Len(visit_log) :
        visit_log[i].in_store =>
            /\ visit_log[i].calls = <<>>
            /\ visit_log[i].inserted = 0
            /\ visit_log[i].cls = "Skipped"

\* a second run that skipped a folder the first run had inserted, and in the
\* same run worked on a folder that was not in the store
C19_Witness ==
    /\ Len(runs) = 2
    /\ runs[1].registered = 1
    /\ \E i, j \in 1..Len(visit_log) :
          /\ visit_log[i].in_store
          /\ visit_log[i].cls = "Skipped"
          /\ ~visit_log[j].in_store
          /\ visit_log[j].calls # <<>>


(***************************************************************************)
(* C20.  Within one run a folder path is inserted at most once: the run    *)
(* writes at most one row for a normalized path, and every later visit of  *)
(* a path the run has inserted is Skipped.                                 *)
(***************************************************************************)
RowsOfRun(k, path) ==
    {i \in 1..Len(games) :
        games[i].by = "scan" /\ games[i].run = k /\ normpath(games[i].folder_path) = path}

\* C20: no two rows of one run name the same folder
C20_InsertedOncePerRun ==
    /\ \A k \in 1..Len(runs) : \A f \in Folders : Cardinality(RowsOfRun(k, f)) <= 1
    /\ \A i, j \in 1..Len(visit_log) :
          (i < j /\ visit_log[i].path = visit_log[j].path
                 /\ visit_log[i].cls = "Registered")
              => visit_log[j].cls = "Skipped" /\ visit_log[j].inserted = 0

\* a run that met the same folder twice (the watched folder is listed twice
\* in the settings): Registered the first time, Skipped the second
C20_Witness ==
    /\ Len(runs) = 1
    /\ \E i, j \in 1..Len(visit_log) :
          /\ i < j
          /\ visit_log[i].path = visit_log[j].path
          /\ visit_log[i].cls = "Registered"
          /\ visit_log[j].cls = "Skipped"
    /\ \E f \in Folders : Cardinality(RowsOfRun(1, f)) = 1


(***************************************************************************)
(* C16.  The image loaders serve one shared queue with a fixed pool of 3   *)
(* threads, so at most 3 requests are in process at any time, and the      *)
(* queue is bounded: the requests waiting in it never exceed a fixed       *)
(* capacity, however many the window issues.  As stated                    *)
(* (C16_PoolOfThreeBoundedQueue) this fails: image_queue has no capacity.  *)
(* What holds (C16_PoolOfThreeUnboundedQueue): there are 3 loaders, each   *)
(* with at most one task, so at most 3 requests are in process; a put is   *)
(* never refused and never waits, and every request issued and not yet     *)
(* taken by a loader waits in the queue.                                   *)
(***************************************************************************)
InProcess == {t \in Loaders : loader[t].pc = "load"}

Waiting == {l \in Labels : prefetch_log[l] = "queued"}

GonePath == <<"A", Sep, "R", "J", "9">>
StoredPaths == Folders \cup {GonePath}

LastName(path) == Components(path)[Len(Components(path))]

\* the row a scan or a registration by hand has put for a folder
StoredRow(id, path) ==
    LET code == extract_game_code(LastName(path))
    IN  IF code = NoCode
        THEN Row(id, CHOOSE c \in ManualCodes : TRUE, <<>>, path,
                 JsonDumps(<<>>), "manual", 1)
        ELSE Row(id, code, CoverPath(path), path, JsonDumps(<<"game.exe">>), "scan", 1)

StoresOfPaths(most) ==
    {[i \in 1..Len(q) |-> StoredRow(i, q[i])] :
        q \in UNION {{r \in [1..n -> StoredPaths] :
                         \A i, j \in 1..n : i # j => r[i] # r[j]} : n \in 1..most}}

\* os.path.exists(folder_path)
FolderExists(folder_path, gone) == \E f \in Folders \ gone : SameFolder(f, folder_path)

DeleteRowMutantAll(rows, game_id) == <<>>

\* DELETE FROM games WHERE id = ?
DeleteRow(rows, game_id) == SelectSeq(rows, LAMBDA r : r.id # game_id)

InitDelete ==
    /\ \E rows \in StoresOfPaths(MaxStored) :
          /\ games = rows
          /\ last_id = Len(rows)
          /\ all_games = SortedByIdDescending(rows)
          /\ game_frames = refresh_display(SortedByIdDescending(rows),
                                           [f \in Folders |-> [i \in ImageIndexes |->
                                               IF i = 0 THEN OldFile ELSE NoFile]], {})
    /\ duplicate_games = Pending
    /\ has_exe = [f \in Folders |-> extract_game_code(LastName(f)) # NoCode]
    /\ thumbs = [f \in Folders |-> [i \in ImageIndexes |-> IF i = 0 THEN OldFile ELSE NoFile]]
    /\ thumb_dirs = Folders
    /\ game_paths = GamePathsOf(<< <<"A">> >>)
    /\ skipped_folders = <<>>
    /\ invalid_folders = <<>>
    /\ no_exe_folders = <<>>
    /\ scan_pc = "idle"
    /\ registered_folders = {}
    /\ path_idx = 1
    /\ listing = <<>>
    /\ scan_threads = 0
    /\ WindowIdle /\ RecordIdle
    /\ selection = NoDialog
    /\ search_dialog = NoSearchDialog
    /\ thread_ops = {}
    /\ trash = {}
    /\ delete_log = NoDelete
    /\ ExtractIdle /\ ScrapeIdle /\ SearchIdle /\ ResizeIdle /\ DownloadIdle /\ PrefetchIdle

\* delete_game on the selected frame: the confirmation, send2trash if the
\* folder exists, the DELETE, all_games without the row, refresh_display
DeleteGame ==
    /\ NoModalDialog
    /\ \E k \in 1..Len(game_frames), confirm \in BOOLEAN, trash_ok \in BOOLEAN,
          db_ok \in BOOLEAN :
          LET game == game_frames[k].game_data
              exists == FolderExists(game.folder_path, trash)
              record == [outcome |-> "declined", id |-> game.id,
                         folder_path |-> game.folder_path, existed |-> exists,
                         rows |-> games, trash |-> trash]
          IN  /\ (~confirm \/ ~exists) => trash_ok
              /\ (~confirm \/ ~trash_ok) => db_ok
              /\ IF ~confirm
                 THEN /\ delete_log' = record
                      /\ UNCHANGED <<games, all_games, game_frames, image_queue, trash,
                                     message>>
                 ELSE IF ~trash_ok
                 THEN /\ delete_log' = [record EXCEPT !.outcome = "trash failed"]
                      /\ message' = [title |-> "delete error", error |-> "send2trash"]
                      /\ UNCHANGED <<games, all_games, game_frames, image_queue, trash>>
                 ELSE /\ trash' = IF exists THEN trash \cup {OnDisk(game.folder_path)}
                                  ELSE trash
                      /\ IF ~db_ok
                         THEN /\ delete_log' = [record EXCEPT !.outcome = "delete failed"]
                              /\ message' = [title |-> "delete error", error |-> "sqlite3"]
                              /\ UNCHANGED <<games, all_games, game_frames, image_queue>>
                         ELSE /\ delete_log' = [record EXCEPT !.outcome = "deleted"]
                              /\ games' = DeleteRow(games, game.id)
                              /\ all_games' = SelectSeq(all_games,
                                                        LAMBDA g : g.id # game.id)
                              /\ LET frames == refresh_display(
                                                  SelectSeq(all_games,
                                                            LAMBDA g : g.id # game.id),
                                                  thumbs, trash')
                                 IN  /\ game_frames' = frames
                                     /\ image_queue' = image_queue \o RefreshTasks(frames)
                              /\ message' = [title |-> "deleted"]
    /\ UNCHANGED <<last_id, duplicate_games, diskVars, viewerVars, scan_btn, after_calls,
                   recordVars, extractVars, scrapeVars, searchVars, resizeVars, downloadVars, loaderVars,
                   dialogVars, thread_ops>>

NextDelete == DeleteGame

SpecDelete == InitDelete /\ [][NextDelete]_vars

(***************************************************************************)
(* SpecSearch: the searches.  perform_search reads the search boxes and    *)
(* starts a thread; search_in_background queries the store, assigns the    *)
(* rows to all_games and hands apply_sort to the window, which sorts       *)
(* all_games and shows its first page.  Only the identifier box is filled  *)
(* in; the other boxes are empty and add no condition.                     *)
(***************************************************************************)
\* the searches started in one behaviour
MaxSearches == 3

\* what the identifier box may hold when a search is started
SearchTexts == {<<>>, <<"R", "J">>, <<" ", "7", " ">>, <<"x">>}

\* str.lower, on the characters of the identifiers and of the texts
LowerChar(c) ==
    IF c = "R" THEN "r" ELSE IF c = "J" THEN "j" ELSE IF c = "V" THEN "v"
    ELSE IF c = "MANUAL_" THEN "manual_" ELSE c

Lower(text) == [i \in 1..Len(text) |-> LowerChar(text[i])]

\* str.strip
RECURSIVE Strip(_)
Strip(text) ==
    IF text = <<>> THEN text
    ELSE IF Head(text) = " " THEN Strip(Tail(text))
    ELSE IF text[Len(text)] = " " THEN Strip(SubSeq(text, 1, Len(text) - 1))
    ELSE text

\* value LIKE %term%
Like(value, term) ==
    \E i \in 0..(Len(value) - Len(term)) : SubSeq(value, i + 1, i + Len(term)) = term

\* SELECT * FROM games [WHERE LOWER(game_code) LIKE ?]
SearchRows(rows, term) ==
    IF term = <<>> THEN rows
    ELSE SelectSeq(rows, LAMBDA r : Like(Lower(r.game_code), term))

Shuffles(rows) ==
    {[i \in 1..Len(rows) |-> rows[p[i]]] :
        p \in {q \in [1..Len(rows) -> 1..Len(rows)] :
                  \A i, j \in 1..Len(rows) : i # j => q[i] # q[j]}}

RECURSIVE SortedByIdAscending(_)
SortedByIdAscending(rows) ==
    IF rows = <<>> THEN <<>>
    ELSE LET low == CHOOSE i \in 1..Len(rows) : \A j \in 1..Len(rows) : rows[i].id <= rows[j].id
         IN  <<rows[low]>> \o
             SortedByIdAscending(SubSeq(rows, 1, low - 1) \o SubSeq(rows, low + 1, Len(rows)))

\* what apply_sort may make of all_games: shuffled, ascending or descending by
\* the first column
Sorted(rows, choice) ==
    IF choice = "random" THEN Shuffles(rows)
    ELSE IF choice = "ascending" THEN {SortedByIdAscending(rows)}
    ELSE {SortedByIdDescending(rows)}

InitSearch == InitDelete

\* perform_search: the terms are read and the thread is started
PerformSearch ==
    /\ Len(search_threads) < MaxSearches
    /\ \E text \in SearchTexts :
          search_threads' = Append(search_threads,
                                   [pc |-> "query", terms |-> Lower(Strip(text)),
                                    rows |-> <<>>])
    /\ UNCHANGED <<extractVars, scrapeVars, resizeVars, downloadVars, storeVars, scanVars,
                   prefetchVars>>

\* search_in_background: cursor.execute(query, params) and fetchall
SearchQuery(k) ==
    /\ search_threads[k].pc = "query"
    /\ search_threads' = [search_threads EXCEPT
                             ![k].pc = "fetched",
                             ![k].rows = SearchRows(games, search_threads[k].terms)]
    /\ UNCHANGED <<extractVars, scrapeVars, resizeVars, downloadVars, storeVars, scanVars,
                   prefetchVars>>

\* search_in_background: self.all_games = ..., conn.close() and
\* window.after(0, apply_sort)
SearchAssign(k) ==
    /\ search_threads[k].pc = "fetched"
    /\ search_threads' = [search_threads EXCEPT ![k].pc = "done"]
    /\ all_games' = search_threads[k].rows
    /\ after_calls' = Append(after_calls, [fn |-> "apply_sort"])
    /\ UNCHANGED <<games, last_id, duplicate_games, diskVars, viewerVars, scan_btn, message,
                   recordVars, reviewVars, extractVars, scrapeVars, resizeVars, downloadVars,
                   prefetchVars>>

\* apply_sort, run by the window: the frames are destroyed, all_games is
\* sorted by the choice of the sort box, refresh_display shows the first page
ApplySort ==
    /\ UiFree
    /\ \E k \in 1..Len(after_calls) :
          /\ after_calls[k].fn = "apply_sort"
          /\ after_calls' = RemoveAt(after_calls, k)
    /\ \E choice \in {"random", "ascending", "descending"} :
          \E rows \in Sorted(all_games, choice) :
             /\ all_games' = rows
             /\ LET frames == refresh_display(rows, thumbs, trash)
                IN  /\ game_frames' = frames
                    /\ image_queue' = image_queue \o RefreshTasks(frames)
    /\ UNCHANGED <<games, last_id, duplicate_games, diskVars, viewerVars, scan_btn, message,
                   recordVars, dialogVars, thread_ops, trash, delete_log, extractVars,
                   scrapeVars, resizeVars, downloadVars, loaderVars, searchVars>>

NextSearch ==
    \/ PerformSearch
    \/ \E k \in 1..Len(search_threads) : SearchQuery(k)
    \/ \E k \in 1..Len(search_threads) : SearchAssign(k)
    \/ ApplySort

SpecSearch == InitSearch /\ [][NextSearch]_vars

(***************************************************************************)
(* C12.  Every row put in the store by a scan run or by manual             *)
(* registration has its folder path in normalized form, and the scan's     *)
(* skip check and the review surface's already-registered check treat two  *)
(* spellings of one folder as the same folder.                             *)
(***************************************************************************)
RowsPutNormalized ==
    \A i \in 1..Len(games) : games[i].edits = 0 => IsNormalized(games[i].folder_path)

SkipCheckNormalizes ==
    \A v \in 1..Len(visit_log) : visit_log[v].known => visit_log[v].cls = "Skipped"

\* the review surface keeps no folder that a row names, in whatever spelling
ReviewCheckNormalizes ==
    (selection.pc # "filtering" /\ selection'.pc = "filtering")
        => \A k \in 1..Len(selection'.folders) : \A i \in 1..Len(games) :
               ~SameFolder(games[i].folder_path, selection'.folders[k])

\* C12, as stated: the review surface's check sees through spellings too
C12_ReviewCheckSeesSpellings == [][ReviewCheckNormalizes]_vars

\* C12, the parts on the rows as they are put and on the scan's skip check
C12_PutNormalizedAndSkipped == RowsPutNormalized /\ SkipCheckNormalizes

(***************************************************************************)
(* C13.  The cover image path of every row inserted by a scan run or by    *)
(* manual registration is empty or a path under the row's own cache        *)
(* directory, folder_path/thumb_imgs; a frame whose cover file does not    *)
(* exist asks for no image and shows the text for a missing image.         *)
(***************************************************************************)
Under(path, dir) ==
    /\ Len(path) > Len(dir) + 1
    /\ SubSeq(path, 1, Len(dir)) = dir
    /\ path[Len(dir) + 1] = Sep
    /\ \A i \in (Len(dir) + 2)..Len(path) : ~IsSep(path[i])

CoverUnderOwnCache(game) ==
    \/ game.cover_image = <<>>
    \/ Under(game.cover_image, join(game.folder_path, <<"thumb_imgs">>))

\* C13: covers are empty or under the own cache directory; a missing cover
\* file is not requested
C13_CoverUnderCacheMissingNotRequested ==
    /\ \A i \in 1..Len(games) : CoverUnderOwnCache(games[i])
    /\ \A k \in 1..Len(game_frames) :
          /\ CoverUnderOwnCache(game_frames[k].game_data)
          /\ ~game_frames[k].found
                => ~game_frames[k].request /\ game_frames[k].text = "no image"
    /\ \A k \in 1..Len(image_queue) :
          \E f \in Folders : image_queue[k].path = CoverPath(f) /\ f \in thumb_dirs

\* a frame of a scanned row whose cover file is missing, beside a row
\* registered by hand with the image that was picked
C13_Witness ==
    /\ \E k \in 1..Len(game_frames) :
          /\ game_frames[k].game_data.by = "scan"
          /\ game_frames[k].game_data.cover_image # <<>>
          /\ ~game_frames[k].found
          /\ game_frames[k].text = "no image"
    /\ \E i \in 1..Len(games) :
          /\ games[i].by = "manual"
          /\ games[i].cover_image # <<>>

(***************************************************************************)
(* C15.  No network fetch, image decode, image encode or enumeration of    *)
(* the file system is run by the window's own thread; each runs on the     *)
(* scan thread or on a background thread.                                  *)
(***************************************************************************)
BlockingOps == {"network fetch", "image decode", "image encode", "enumeration"}

\* C15: no blocking operation is recorded for the window's thread
C15_NoBlockingWorkOnWindow ==
    \A e \in thread_ops : e.op \in BlockingOps => e.thread # "window"

(***************************************************************************)
(* C18.  A folder that a scan run classified NoExecutable is, after the    *)
(* run, among the folders the review surface offers for manual             *)
(* registration.                                                           *)
(***************************************************************************)
NoExecutablePaths ==
    {visit_log[v].path : v \in {w \in 1..Len(visit_log) : visit_log[w].cls = "NoExecutable"}}

\* the review surface is opened when the last run has completed
ReviewAfterRun ==
    /\ selection.pc = "closed" /\ selection'.pc = "filtering"
    /\ scan_pc = "idle" /\ runs # <<>> /\ runs[Len(runs)].outcome = "complete"

\* C18: opened after a completed run, the review surface keeps every folder
\* the run classified NoExecutable
C18_NoExecutableOffered ==
    [][ReviewAfterRun => NoExecutablePaths \subseteq Elements(selection'.folders)]_vars

(***************************************************************************)
(* C17.  A confirmed delete that succeeds moves the folder of the row to   *)
(* the trash and removes exactly the row with that id, every other row as  *)
(* it was; when the user declines or the move to the trash fails, the      *)
(* store and the folders are as they were.                                 *)
(***************************************************************************)
C17_DeleteFrame ==
    /\ delete_log.outcome = "deleted" =>
          /\ \A i \in 1..Len(games) : games[i].id # delete_log.id
          /\ games = SelectSeq(delete_log.rows, LAMBDA r : r.id # delete_log.id)
          /\ Len(games) = Len(delete_log.rows) - 1
          /\ delete_log.existed =>
                /\ ~FolderExists(delete_log.folder_path, trash)
                /\ trash = delete_log.trash \cup {OnDisk(delete_log.folder_path)}
          /\ ~delete_log.existed => trash = delete_log.trash
    /\ delete_log.outcome \in {"declined", "trash failed"} =>
          /\ games = delete_log.rows
          /\ trash = delete_log.trash

\* a row of three was deleted and its folder is in the trash, after a delete
\* that was declined or failed had left everything alone
C17_Witness ==
    /\ delete_log.outcome = "deleted"
    /\ delete_log.existed
    /\ Len(delete_log.rows) = 3
    /\ Len(games) = 2
    /\ trash # {}

C17_WitnessDeclined ==
    /\ delete_log.outcome \in {"declined", "trash failed"}
    /\ Len(games) = 2 /\ trash # {}

(***************************************************************************)
(* C21.  scrape_game_info fails exactly when the page fetch fails or the   *)
(* title is not found; in every other case it gives the entry, with        *)
(* defaults for what the page lacks, whatever becomes of the preview       *)
(* images.                                                                 *)
(***************************************************************************)
Scraped == scrape_result # NoScrape

\* C21, as stated: None is returned exactly for a failed fetch or a missing title
C21_FailsExactlyOnFetchOrTitle ==
    Scraped =>
        (scrape_result.call.info = NoInfo
            <=> scrape_result.page.status \in {"fetch_failed", "no_title"})

(***************************************************************************)
(* C22.  A failed rating request never fails scrape_game_info: the entry   *)
(* is the one a successful request would have given, with rating 0.0; and  *)
(* the rating is asked for only after the page was fetched and the title   *)
(* found.                                                                  *)
(***************************************************************************)
\* the call of scrape_result, had the rating request given its value
WithRating(answer) ==
    ScrapeCall(scrape_args.code, ScrapeFolder, scrape_args.files, scrape_args.dir,
               scrape_result.page, scrape_result.mkdir_ok, scrape_result.outcomes, answer)

IndexOf(q, x) == CHOOSE i \in 1..Len(q) : q[i] = x

PendingNotices ==
    SelectSeq(after_calls, LAMBDA c : c.fn \in {"scan_complete", "scan_error"})

\* C23: an ended run has its one notice, a running one none; while a notice
\* waits the worker is idle
C23_OneNoticeAfterTheWork ==
    /\ \A k \in 1..Len(runs) :
          /\ runs[k].outcome = "running" => runs[k].notices = <<>>
          /\ runs[k].outcome = "complete" => runs[k].notices = <<"scan_complete">>
          /\ runs[k].outcome = "error" => runs[k].notices = <<"scan_error">>
    /\ Len(PendingNotices) <= 1
    /\ PendingNotices # <<>> =>
          /\ scan_pc = "idle"
          /\ runs # <<>>
          /\ PendingNotices[1].fn = runs[Len(runs)].notices[1]
    /\ scan_pc \notin {"idle", "begin"} => runs[Len(runs)].outcome = "running"

\* a run that raised and a run that completed, each with its one notice
C23_Witness ==
    /\ Len(runs) = 2
    /\ runs[1].outcome = "error" /\ runs[1].notices = <<"scan_error">>
    /\ runs[2].outcome = "complete" /\ runs[2].notices = <<"scan_complete">>
    /\ runs[2].visited > 0
    /\ PendingNotices = <<[fn |-> "scan_complete"]>>

(***************************************************************************)
(* C27.  After every scan run, ended well or not, and also when the reload *)
(* of the store or the refresh of the display fails on completion, the     *)
(* scan button is enabled again in the end.                                *)
(***************************************************************************)
\* C27, as stated: a disabled scan button leads to an enabled one
C27_ScanButtonEnabledAgain == (scan_btn = "disabled") ~> (scan_btn = "normal")

(***************************************************************************)
(* C24.  A loader thread never changes a label itself: a label changes     *)
(* only when the window runs update_image_label from its after calls; a    *)
(* request leads to at most one delivery; and the image delivered is the   *)
(* one loaded from the path of that request, for the label of that         *)
(* request.                                                                *)
(***************************************************************************)
Deliveries(l) ==
    {k \in 1..Len(after_calls) :
        after_calls[k].fn = "update_image_label" /\ after_calls[k].label = l}

InQueue(l) == {k \in 1..Len(image_queue) : image_queue[k].label = l}
HeldBy(l) == {t \in Loaders : loader[t].pc = "load" /\ loader[t].task.label = l}

\* a request is in one place at a time, and once delivered it is nowhere else
OneDeliveryAtMost ==
    \A l \in Labels :
        /\ Cardinality(InQueue(l)) + Cardinality(HeldBy(l)) + Cardinality(Deliveries(l)) <= 1
        /\ img_labels[l] # NoImage =>
              InQueue(l) = {} /\ HeldBy(l) = {} /\ Deliveries(l) = {}
        /\ Deliveries(l) # {} => prefetch_log[l] = "delivered"

\* a label changes only in a step of the window that takes a delivery for that
\* label out of the after calls and shows its image; the loaders are not in it
LabelsChangedByWindowOnly ==
    \A l \in Labels :
        img_labels'[l] # img_labels[l] =>
            /\ loader' = loader /\ image_queue' = image_queue
            /\ \E k \in Deliveries(l) :
                  /\ after_calls' = RemoveAt(after_calls, k)
                  /\ img_labels'[l] = after_calls[k].img

\* a loader that hands a delivery over hands over the image of the task it
\* holds, for the label of that task; the task it holds is the one it took
DeliveryOfOwnRequest ==
    \A t \in Loaders :
        /\ (loader[t].pc = "get" /\ loader'[t].pc = "load") =>
              loader'[t].task = Head(image_queue)
        /\ (loader[t].pc = "load" /\ loader'[t].pc = "get"
              /\ Len(after_calls') > Len(after_calls)) =>
              /\ after_calls' = Append(after_calls, after_calls'[Len(after_calls')])
              /\ after_calls'[Len(after_calls')].label = loader[t].task.label
              /\ after_calls'[Len(after_calls')].img.path = loader[t].task.path
              /\ after_calls'[Len(after_calls')].img.box = loader[t].task.size
              /\ img_labels' = img_labels

\* C24: labels are changed by the window only, one delivery a request at most,
\* each delivery that of its own request
C24_DeliveredByWindowOnly ==
    /\ []OneDeliveryAtMost
    /\ [][LabelsChangedByWindowOnly /\ DeliveryOfOwnRequest]_vars

\* two labels show the images of their own requests while a third delivery waits
C24_Witness ==
    /\ \E l, m \in Labels :
          /\ l # m
          /\ img_labels[l] # NoImage /\ img_labels[m] # NoImage
          /\ img_labels[l].path # img_labels[m].path
    /\ \E l \in Labels : Deliveries(l) # {} /\ img_labels[l] = NoImage

(***************************************************************************)
(* C25.  Every request put on the queue is in the end taken by one loader  *)
(* thread and then delivered or dropped (file missing, or not readable as  *)
(* an image); a request leaves the queue only by being taken; a delivery   *)
(* is in the end run by the window, and it changes nothing when the label  *)
(* is gone.                                                                *)
(***************************************************************************)
Settled(l) == prefetch_log[l] \in {"missing", "delivered", "failed"}

\* the queue loses a request only at its head, to a thread that was waiting
TakenOnly ==
    image_queue' # image_queue =>
        IF Len(image_queue') > Len(image_queue)
        THEN image_queue' = Append(image_queue, image_queue'[Len(image_queue')])
        ELSE /\ image_queue # <<>> /\ image_queue' = Tail(image_queue)
             /\ LET task == Head(image_queue)
                    takers == {t \in Loaders : loader'[t] # loader[t]}
                IN  \/ /\ prefetch_log'[task.label] = "missing"
                       /\ takers = {}
                    \/ /\ prefetch_log'[task.label] = "loading"
                       /\ Cardinality(takers) = 1
                       /\ \A t \in takers : loader[t].pc = "get" /\ loader'[t].task = task

\* a delivery leaves the after calls with the label either showing its image
\* or left as it was
DeliveryHarmless ==
    \A l \in Labels :
        Cardinality(Deliveries(l)') < Cardinality(Deliveries(l)) =>
            /\ \A m \in Labels \ {l} : img_labels'[m] = img_labels[m]
            /\ img_labels'[l] \in {img_labels[l]} \cup {after_calls[k].img : k \in Deliveries(l)}
            /\ UNCHANGED <<image_queue, loader, prefetch_log>>

\* a request in the queue is held by no thread, and a request taken is held by
\* one thread
TakenByOne ==
    \A l \in Labels :
        /\ InQueue(l) # {} => HeldBy(l) = {} /\ prefetch_log[l] = "queued"
        /\ Cardinality(HeldBy(l)) <= 1
        /\ HeldBy(l) # {} => prefetch_log[l] = "loading"

\* C25: each queued request in the end leaves the queue, taken by one thread,
\* and is settled; each delivery is in the end run, harmlessly
C25_EveryRequestSettled ==
    /\ \A l \in Labels : (InQueue(l) # {}) ~> (InQueue(l) = {})
    /\ \A l \in Labels : (prefetch_log[l] \in {"queued", "loading"}) ~> Settled(l)
    /\ \A l \in Labels : (Deliveries(l) # {}) ~> (Deliveries(l) = {})
    /\ []TakenByOne
    /\ [][TakenOnly /\ DeliveryHarmless]_vars

\* all requests were made and settled, one of each kind, and a delivery was
\* run for a label that did not take its image
C25_Witness ==
    /\ \A l \in 1..MaxLiveFrames : Settled(l) \/ prefetch_log[l] = "no image"
    /\ \E l, m, n \in Labels :
          /\ prefetch_log[l] = "missing" /\ prefetch_log[m] = "failed"
          /\ prefetch_log[n] = "delivered" /\ Deliveries(n) = {} /\ img_labels[n] = NoImage
    /\ image_queue = <<>> /\ after_calls = <<>>

(***************************************************************************)
(* C26.  Whatever the order of scan runs and of manual registrations of    *)
(* folders from the review list, a registration during a run included,     *)
(* the store never holds two rows whose folder_path normalize to the same  *)
(* path.                                                                   *)
(***************************************************************************)
\* C26: no two rows of the store are of the same folder
C26_OneRowPerFolder ==
    \A i, j \in 1..Len(games) :
        i # j => normpath(games[i].folder_path) # normpath(games[j].folder_path)

(***************************************************************************)
(* C28.  The images of an entry are in its cache directory before the scan *)
(* inserts its row: the INSERT is the last call made for the folder, after *)
(* scrape_game_info, the cover file asked for and fetched is there in the  *)
(* state that first shows the row, and the scan never writes the cover     *)
(* file that a row of the store names.                                     *)
(***************************************************************************)
\* a row of the store names the cover file of folder f
HasStoredCover(f) == \E i \in 1..Len(games) : games[i].cover_image = CoverPath(f)

\* a step of process_folders that visited a folder
ScanVisit == Len(visit_log') > Len(visit_log)

CacheWrittenBeforeInsert ==
    ScanVisit =>
        /\ \A f \in Folders : HasStoredCover(f) => thumbs'[f][0] = thumbs[f][0]
        /\ LET v == visit_log'[Len(visit_log')]
           IN  v.inserted = 1 =>
                 LET row == games'[Len(games')]
                 IN  /\ row.by = "scan" /\ SameFolder(row.folder_path, v.path)
                     /\ v.calls[Len(v.calls)] = "INSERT"
                     /\ IndexOf(v.calls, "scrape_game_info") < Len(v.calls)
                     /\ (row.cover_image # <<>> /\ ~v.in_store /\ v.failure = "none")
                           => thumbs'[OnDisk(v.path)][0] # NoFile

\* C28: what the scan writes to the cache of an entry is written when the row
\* of the entry is inserted, and not after
C28_CacheBeforeInsert == [][CacheWrittenBeforeInsert]_vars

(***************************************************************************)
(* C29.  When several searches were started one after another and all of   *)
(* their threads have ended and the window has run what they handed over,  *)
(* the rows shown are those of the search started last.                    *)
(***************************************************************************)
SearchesOver ==
    /\ search_threads # <<>>
    /\ \A k \in 1..Len(search_threads) : search_threads[k].pc = "done"
    /\ \A k \in 1..Len(after_calls) : after_calls[k].fn # "apply_sort"

\* C29: once all searches are over, all_games and the frames hold the rows of
\* the search started last
C29_LastSearchShown ==
    SearchesOver =>
        LET last == search_threads[Len(search_threads)]
        IN  /\ Elements(all_games) = Elements(SearchRows(games, last.terms))
            /\ {game_frames[k].game_data : k \in 1..Len(game_frames)}
                   \subseteq Elements(SearchRows(games, last.terms))

(***************************************************************************)
(* C30.  Once a folder was registered by hand, every scan run started      *)
(* after that classifies it Skipped and makes no call for it, and the      *)
(* review surface, whenever it is opened, does not offer it.               *)
(***************************************************************************)
\* the rows registered by hand for the folder of this path
ManualRowsOf(path) == {i \in ManualRows : SameFolder(games[i].folder_path, path)}

\* a visit of a run started after the registration of the folder visited
SkippedOnceRegistered ==
    ScanVisit =>
        LET v == visit_log'[Len(visit_log')]
        IN  (\E i \in ManualRowsOf(v.path) : games[i].run < run_no)
               => /\ v.cls = "Skipped" /\ v.calls = <<>>
                  /\ games' = games /\ thumbs' = thumbs
                  /\ invalid_folders' = invalid_folders

\* what the review surface offers holds no folder registered by hand
NotOfferedOnceRegistered ==
    selection.pc # "closed" =>
        \A k \in 1..Len(selection.folders) : ManualRowsOf(selection.folders[k]) = {}

\* C30: a folder registered by hand is skipped without a call by the runs
\* started later and is not offered by the review surface
C30_RegisteredByHandIsSettled ==
    /\ []NotOfferedOnceRegistered
    /\ [][SkippedOnceRegistered]_vars

\* the review surface, opened again with the registered folder still in
\* invalid_folders, offers the other folder only, and the run started after
\* the registration has skipped the registered folder
C30_Witness ==
    /\ selection.opened > MaxReviews /\ selection.pc = "open"
    /\ selection.folders # <<>>
    /\ \E i \in ManualRows :
          /\ games[i].run < run_no
          /\ \E k \in 1..Len(visit_log) :
                /\ SameFolder(visit_log[k].path, games[i].folder_path)
                /\ visit_log[k].cls = "Skipped"

====
